---- MODULE Spec2Model ----
(***************************************************************************)
(* Model of the scheduled automation scripts of the .github repository:    *)
(*   - isBeginningOfCycle, the 4-week cycle predicate (helpers);          *)
(*   - chunkArray and the page loops of createSlides (pagination);        *)
(*   - the changelog poster with asset rehosting and rehostCache;         *)
(*   - the weekly story-points script.                                     *)
(* Each script is a sequential program; its position is a pc variable and  *)
(* the answers of the remote services are chosen nondeterministically.     *)
(***************************************************************************)
EXTENDS Integers, Sequences, FiniteSets, TLC

VARIABLES
    \* ---- cycle predicate harness
    date,            \* the Date passed to isBeginningOfCycle: [day, ms]
    cycleResult,     \* the value returned ("none" before the call)
    cyclePc,         \* "idle" | "call" | "done"
    \* ---- chunkArray harness
    array,           \* the argument array
    chunkSize,       \* the argument chunkSize
    chunkI,          \* the loop variable i
    chunks,          \* the local chunks
    chunkPc,         \* "idle" | "loop" | "done"
    \* ---- createSlides
    grouped,         \* argument: bullets per group key
    images,          \* argument: image URLs per group key
    quote,           \* argument: the quote ("" when there is none)
    deck,            \* the slides of the copied presentation, in order
    insertionIndex,  \* const insertionIndex
    groupSlideRequests,
    otherSlideRequests,
    followupRequests,
    groupPos,        \* position of the outer loop in Object.entries(titleMap)
    bulletI,         \* the inner loop variable i of the bullet pages
    imageI,          \* the loop variable i of the image pages
    imageIndex,      \* let imageIndex
    script,          \* which slide generator runs: "monthly" | "variant"
    csPc,            \* position inside createSlides
    \* ---- changelog poster with rehosting
    posterEnv,       \* the environment variables that are set
    pPc,             \* position inside the poster
    reposLeft,       \* repositories main has still to process
    prsLeft,         \* production PRs processRepo has still to process
    commitsLeft,     \* commits collectImagesFromDevPRs has still to look up
    devPRsLeft,      \* development PRs of the current commit still to read
    urlsLeft,        \* allGithubUploadUrls still to visit in extractMediaLinks
    results,         \* const results of extractMediaLinks
    prImages,        \* allImages of collectImagesFromDevPRs (a Set, in order)
    summaries,       \* summaries of processRepo: the images of each PR
    details,         \* details of main: the images of each repository section
    rehostCache,     \* rehostCache: GitHub URL -> Uploadcare URL
    filesStored,     \* number of files the CDN has stored in this run
    rehostLog,       \* per URL: how rehydrateGitHubAssetToUploadcare ended
    calls,           \* kinds of remote calls made so far
    failedCall,      \* the call other than a rehost that failed ("none")
    tolerated,       \* the call the latest step logged as failed and passed over
    cannyEntries,    \* the details of the Canny entries created
    slackMessages,   \* number of Slack messages posted
    exitCode,        \* Running, 0 or 1
    \* ---- weekly story points
    weeklyEnv,       \* the environment variables that are set
    wPc,             \* position inside postMetrics
    repoSizes,       \* the number of closed issues of each repository
    wRepo,           \* index of the repository the loop is at
    wIssue,          \* index of the issue the loop is at
    issues,          \* const issues, then closedIssues
    failedLookups,   \* the issues whose fetchProjectData threw
    authorStats,     \* authorStats, as the entries of the object in key order
    wRemoteCalls,    \* number of GitHub and Slack requests sent
    chartFile,       \* author-stats.png has been written
    slackUploads,    \* number of images posted to Slack
    topPerformer,    \* topPerformerGitHub as passed to postImageToSlack
    weeklyFailed,    \* what other than a lookup threw ("none")
    weeklyExit,      \* Running, 0 or 1
    \* ---- changelog poster without rehosting (postToCanny.ts)
    plainEnv,        \* the environment variables that are set
    plainPc,         \* position inside the poster
    plainReposLeft,  \* repositories main has still to process
    plainPrsLeft,    \* PRs of the repository still to process
    plainSummaries,  \* summaries: the images of each PR
    plainDetails,    \* details: the images of each repository section
    plainCalls,      \* kinds of remote calls made so far
    plainFailed,     \* the call that failed ("none")
    plainEntries,    \* the details of the Canny entries created
    plainExit,       \* Running, 0 or 1
    \* ---- the weekly schedule of the slide workflow
    schedDate,       \* the instant of the latest scheduled run
    schedLog,        \* per scheduled run so far: its day and shouldRun()
    \* ---- one run of the slide generator (monthlyReleasesSlides.ts)
    genEnv,          \* the environment variables that are set
    genTrigger,      \* "schedule" or "workflow_dispatch"
    genNow,          \* new Date() / Date.now() of the run
    genPc,           \* position inside main
    feed,            \* the changelog feed of Canny: id and created per entry
    skip,            \* let skip
    genEntries,      \* const entries
    pageRequests,    \* per page request sent: its skip and what came back
    batchI,          \* let i of groupAndSummarizeEntries
    permissions,     \* drive.permissions.create calls that succeeded
    imageCandidates, \* the image URLs collectImagesByGroup has yet to probe
    probes,          \* per isImageAccessible call: the URL and the HEAD answer
    imageMap,        \* imageMap: the URLs pushed, the three groups in one list
    createdImages,   \* the URLs of the createImage requests sent
    genCalls,        \* kinds of remote calls made so far
    genDone,         \* kinds of remote calls that succeeded
    genFailed,       \* the step that threw ("none")
    genSlack,        \* number of Slack messages posted
    genExit,         \* Running, 0 or 1
    \* ---- the "Kudos to" section of the changelog posters
    kudosScript,     \* "rehosting" (part_000) | "plain" (postToCanny.ts)
    commitsSeen,     \* number of commits whose author was added
    allContributors, \* const allContributors (a Set, in insertion order)
    kudosDetails,    \* what main appended to details for the section
    kudosPc          \* "idle" | "collect" | "done"

cycleVars == <<date, cycleResult, cyclePc>>

chunkVars == <<array, chunkSize, chunkI, chunks, chunkPc>>

slideVars ==
    <<grouped, images, quote, deck, insertionIndex, groupSlideRequests,
      otherSlideRequests, followupRequests, groupPos, bulletI, imageI,
      imageIndex, script, csPc>>

posterVars ==
    <<posterEnv, pPc, reposLeft, prsLeft, commitsLeft, devPRsLeft, urlsLeft,
      results, prImages, summaries, details, rehostCache, filesStored,
      rehostLog, calls, failedCall, tolerated, cannyEntries, slackMessages,
      exitCode>>

weeklyVars ==
    <<weeklyEnv, wPc, repoSizes, wRepo, wIssue, issues, failedLookups,
      authorStats, wRemoteCalls, chartFile, slackUploads, topPerformer,
      weeklyFailed, weeklyExit>>

plainVars ==
    <<plainEnv, plainPc, plainReposLeft, plainPrsLeft, plainSummaries,
      plainDetails, plainCalls, plainFailed, plainEntries, plainExit>>

schedVars == <<schedDate, schedLog>>

genVars ==
    <<genEnv, genTrigger, genNow, genPc, feed, skip, genEntries, pageRequests,
      batchI, permissions, imageCandidates, probes, imageMap, createdImages,
      genCalls, genDone, genFailed, genSlack, genExit>>

kudosVars ==
    <<kudosScript, commitsSeen, allContributors, kudosDetails, kudosPc>>

vars ==
    <<cycleVars, chunkVars, slideVars, posterVars, weeklyVars, plainVars,
      schedVars, genVars, kudosVars>>

\* what the steps of one program leave alone: the other programs' state
notCycle ==
    <<chunkVars, slideVars, posterVars, weeklyVars, plainVars,
      schedVars, genVars, kudosVars>>

notChunk ==
    <<cycleVars, slideVars, posterVars, weeklyVars, plainVars,
      schedVars, genVars, kudosVars>>

notSlides ==
    <<cycleVars, chunkVars, posterVars, weeklyVars, plainVars,
      schedVars, genVars, kudosVars>>

notPoster ==
    <<cycleVars, chunkVars, slideVars, weeklyVars, plainVars,
      schedVars, genVars, kudosVars>>

notPlain ==
    <<cycleVars, chunkVars, slideVars, posterVars, weeklyVars,
      schedVars, genVars, kudosVars>>

notSched ==
    <<cycleVars, chunkVars, slideVars, posterVars, weeklyVars, plainVars,
      genVars, kudosVars>>

notGen ==
    <<cycleVars, chunkVars, slideVars, posterVars, weeklyVars, plainVars,
      schedVars, kudosVars>>

notKudos ==
    <<cycleVars, chunkVars, slideVars, posterVars, weeklyVars, plainVars,
      schedVars, genVars>>

notWeekly ==
    <<cycleVars, chunkVars, slideVars, posterVars, plainVars,
      schedVars, genVars, kudosVars>>

----------------------------------------------------------------------------
(* Dates.  A JavaScript Date is a count of milliseconds since 1970-01-01   *)
(* UTC.  The count does not fit the model checker's integers, so a Date is *)
(* kept as the pair (day, ms): day = floor(t / DayMs), ms = t mod DayMs.   *)

DayMs == 1000 * 60 * 60 * 24

WeekMs == 1000 * 60 * 60 * 24 * 7

\* new Date("YYYY-MM-DD") / new Date("YYYY-MM-DDT00:00:00Z"): the UTC
\* midnight of a civil date, as a day count since 1970-01-01.
DaysFromCivil(y, m, d) ==
    LET yy  == IF m <= 2 THEN y - 1 ELSE y
        era == yy \div 400
        yoe == yy - era * 400
        mp  == IF m > 2 THEN m - 3 ELSE m + 9
        doy == (153 * mp + 2) \div 5 + d - 1
        doe == yoe * 365 + yoe \div 4 - yoe \div 100 + doy
    IN  era * 146097 + doe - 719468

NewDate(y, m, d) == [day |-> DaysFromCivil(y, m, d), ms |-> 0]

\* Date.prototype.getUTCDay: 0 = Sunday .. 6 = Saturday; 1970-01-01 was a
\* Thursday (4).
getUTCDay(t) == (t.day + 4) % 7

\* const anchor = new Date("2025-05-05T00:00:00Z")
anchor_Noon == [day |-> DaysFromCivil(2025, 5, 5), ms |-> 12 * 60 * 60 * 1000]

anchor == NewDate(2025, 5, 5)

\* date.getTime() - anchor.getTime(), as quotient and remainder by WeekMs
\* (long division on the (day, ms) pair; rem is in 0 .. WeekMs - 1).
diffMs(t, a) ==
    LET days == t.day - a.day
        ms   == t.ms - a.ms
        \* borrow a day when the millisecond part is negative
        d2   == IF ms < 0 THEN days - 1 ELSE days
        m2   == IF ms < 0 THEN ms + DayMs ELSE ms
    IN  [weeks |-> d2 \div 7, rem |-> (d2 % 7) * DayMs + m2]

\* Math.floor(diffMs / (1000 * 60 * 60 * 24 * 7))
FloorWeeks(diff) == diff.weeks

\* The JavaScript remainder a % b for b > 0: it has the sign of a
\* (and -0 === 0).
JsRem(a, b) == IF a >= 0 THEN a % b ELSE 0 - ((0 - a) % b)

isBeginningOfCycle_NoSignCheck(t) ==
    IF getUTCDay(t) # 1
    THEN FALSE
    ELSE LET diffWeeks == FloorWeeks(diffMs(t, anchor))
         IN  JsRem(diffWeeks, 4) = 0

isBeginningOfCycle_AbsDiff(t) ==
    IF getUTCDay(t) # 1
    THEN FALSE
    ELSE LET weeks == FloorWeeks(diffMs(t, anchor))
             diffWeeks == IF weeks < 0 THEN 0 - weeks ELSE weeks
         IN  diffWeeks >= 0 /\ JsRem(diffWeeks, 4) = 0

isBeginningOfCycle_EverySecond(t) ==
    IF getUTCDay(t) # 1
    THEN FALSE
    ELSE LET diffWeeks == FloorWeeks(diffMs(t, anchor))
         IN  diffWeeks >= 0 /\ JsRem(diffWeeks, 2) = 0

isBeginningOfCycle(t) ==
    IF getUTCDay(t) # 1
    THEN FALSE
    ELSE LET diffWeeks == FloorWeeks(diffMs(t, anchor))
         IN  diffWeeks >= 0 /\ JsRem(diffWeeks, 4) = 0

\* The fixture dates of the repository's test of isBeginningOfCycle.
validDates ==
    { <<2025, 5, 5>>, <<2025, 6, 2>>, <<2025, 6, 30>>, <<2025, 7, 28>>,
      <<2025, 8, 25>>, <<2025, 9, 22>>, <<2025, 10, 20>>, <<2025, 11, 17>>,
      <<2025, 12, 15>>, <<2026, 1, 12>>, <<2026, 2, 9>>, <<2026, 3, 9>> }

invalidDates ==
    { <<2025, 5, 12>>, <<2025, 6, 9>>, <<2025, 7, 1>>, <<2025, 7, 7>>,
      <<2025, 8, 4>>, <<2025, 10, 6>>, <<2025, 11, 10>>, <<2026, 3, 10>> }

FixtureDate(f) == NewDate(f[1], f[2], f[3])

----------------------------------------------------------------------------
(* Sequences as JavaScript arrays (0-based indices in the source). *)

Min(a, b) == IF a <= b THEN a ELSE b

\* array.slice(from, to) for 0 <= from <= to
Slice(s, from, to) == SubSeq(s, from + 1, Min(to, Len(s)))

\* [1, 2, ..., n] shifted by base: n distinct items
Range(base, n) == [k \in 1 .. n |-> base + k]

RECURSIVE Flatten(_)
\* the concatenation of a sequence of sequences
Flatten(ss) ==
    IF ss = <<>> THEN <<>> ELSE Head(ss) \o Flatten(Tail(ss))

----------------------------------------------------------------------------
(* chunkArray(array, chunkSize), one action per loop iteration. *)

\* chunkArray(summaries, 5) and chunkArray(commitLines, 5)
SummaryChunkSize == 5

\* longest array tried
MaxArrayLen == 12

ChunkIdle ==
    /\ array = <<>>
    /\ chunkSize = 0
    /\ chunkI = 0
    /\ chunks = <<>>
    /\ chunkPc = "idle"

ChunkStart ==
    /\ \E n \in 0 .. MaxArrayLen : array = Range(0, n)
    /\ chunkSize \in 1 .. SummaryChunkSize
    /\ chunkI = 0
    /\ chunks = <<>>
    /\ chunkPc = "loop"

\* the chunk pushed by one iteration
ChunkAt_Overlap(a, i, size) == Slice(a, i, i + size + 1)

ChunkAt_Reversed(a, i, size) ==
    LET c == Slice(a, i, i + size)
    IN  [k \in 1 .. Len(c) |-> c[Len(c) + 1 - k]]

ChunkAt(a, i, size) == Slice(a, i, i + size)

\* for (let i = 0; i < array.length; i += chunkSize) chunks.push(...)
ChunkArrayStep ==
    /\ chunkPc = "loop"
    /\ chunkI < Len(array)
    /\ chunks' = Append(chunks, ChunkAt(array, chunkI, chunkSize))
    /\ chunkI' = chunkI + chunkSize
    /\ UNCHANGED <<array, chunkSize, chunkPc>>
    /\ UNCHANGED notChunk

\* the loop condition fails: return chunks
ChunkArrayReturn ==
    /\ chunkPc = "loop"
    /\ chunkI >= Len(array)
    /\ chunkPc' = "done"
    /\ UNCHANGED <<array, chunkSize, chunkI, chunks>>
    /\ UNCHANGED notChunk

----------------------------------------------------------------------------
(* createSlides of the slide generators.  "monthly" is                     *)
(* monthlyReleasesSlides.ts, "variant" the older generator.                *)

MAX_BULLETS_PER_PAGE_monthly == 6

MAX_BULLETS_PER_PAGE_variant == 7

MAX_IMAGES_PER_PAGE == 9

MAX_BULLETS_PER_PAGE(sc) ==
    IF sc = "monthly" THEN MAX_BULLETS_PER_PAGE_monthly
    ELSE MAX_BULLETS_PER_PAGE_variant

\* Object.entries(titleMap), in insertion order
GroupKeys == <<"features", "improvements", "fixes">>

\* insertionIndex: undefined (the slide is appended)
Undefined == 0 - 1

NoId == <<"", "", 0>>

\* isValidImageUrl: URLs are numbered from 1, 0 stands for a string that
\* does not start with http:// or https://
isValidImageUrl(url) == url > 0

\* { createSlide: { objectId, insertionIndex, ... } }
CreateSlideReq(id, idx) ==
    [op |-> "createSlide", objectId |-> id, pageObjectId |-> NoId,
     insertionIndex |-> idx, text |-> <<>>, url |-> 0, col |-> 0, row |-> 0]

\* { insertText: { objectId, text } }; the text is kept as the list of its
\* lines
InsertTextReq(id, lines) ==
    [op |-> "insertText", objectId |-> id, pageObjectId |-> NoId,
     insertionIndex |-> Undefined, text |-> lines, url |-> 0,
     col |-> 0, row |-> 0]

\* { createShape: { objectId, elementProperties: { pageObjectId } } }
CreateShapeReq(id, page) ==
    [op |-> "createShape", objectId |-> id, pageObjectId |-> page,
     insertionIndex |-> Undefined, text |-> <<>>, url |-> 0,
     col |-> 0, row |-> 0]

\* { createImage: { url, elementProperties: { pageObjectId, transform } } }
CreateImageReq(page, u, c, r) ==
    [op |-> "createImage", objectId |-> NoId, pageObjectId |-> page,
     insertionIndex |-> Undefined, text |-> <<>>, url |-> u,
     col |-> c, row |-> r]

RECURSIVE SelectValid(_)
\* imageUrls.filter(isValidImageUrl)
SelectValid(urls) ==
    IF urls = <<>> THEN <<>>
    ELSE IF isValidImageUrl(Head(urls))
         THEN <<Head(urls)>> \o SelectValid(Tail(urls))
         ELSE SelectValid(Tail(urls))

\* const col = index % 3
GridCol(index) == index % 3

GridRow_ByFour(index) == index \div 4

\* const row = Math.floor(index / 3)
GridRow(index) == index \div 3

\* translateX: 50 + col * 170
translateX(col) == 50 + col * 170

\* translateY: 100 + row * 120
translateY(row) == 100 + row * 120

\* placeholderIdMappings of a createSlide: the title and body boxes of a
\* TITLE_AND_BODY slide; a BLANK image slide has none
PlaceholderIds(slideId) ==
    IF slideId[1] = "slide"
    THEN {<<"title", slideId[2], slideId[3]>>,
          <<"body", slideId[2], slideId[3]>>}
    ELSE {}

SecondBatch_FollowupFirst(other, followup) == followup \o other

\* requests: [...otherSlideRequests, ...followupRequests]
SecondBatch(other, followup) == other \o followup

\* createImageSlide(slideId, imageUrls); the variant does not filter
createImageSlide(sc, slideId, imageUrls) ==
    LET validImageUrls ==
            IF sc = "monthly" THEN SelectValid(imageUrls) ELSE imageUrls
        titleId == <<"images_title", "all", slideId[3]>>
        imageElements ==
            [k \in 1 .. Len(validImageUrls) |->
                CreateImageReq(slideId, validImageUrls[k],
                               GridCol(k - 1), GridRow(k - 1))]
    IN  << CreateSlideReq(slideId, Undefined),
           CreateShapeReq(titleId, slideId),
           InsertTextReq(titleId, <<"Images">>) >> \o imageElements

BulletSlice_OneMore(items, i, perPage) == Slice(items, i, i + perPage + 1)

\* the bullets of one page: groupItems.slice(i, i + MAX_BULLETS_PER_PAGE)
BulletSlice(items, i, perPage) == Slice(items, i, i + perPage)

\* const allImages = [...images.features, ...images.improvements, ...images.fixes]
allImages == images.features \o images.improvements \o images.fixes

\* slides of the template that was copied
TemplateSlides(n) == [k \in 1 .. n |-> <<"template", "", k>>]

getInsertionIndex_End(slides) == Len(slides)

\* getInsertionIndex(presentation): slides.length - 1
getInsertionIndex(slides) == Len(slides) - 1

RECURSIVE ApplyRequests(_, _)
\* presentations.batchUpdate: the requests are applied in list order.  A
\* createSlide with an insertionIndex puts the new slide at that 0-based
\* position of the deck as it is at that moment; without one the slide is
\* appended.  The other requests do not change the order of the slides.
ApplyRequests(slides, reqs) ==
    IF reqs = <<>> THEN slides
    ELSE LET r == Head(reqs)
             after ==
                 IF r.op # "createSlide" THEN slides
                 ELSE IF r.insertionIndex = Undefined
                      THEN Append(slides, r.objectId)
                      ELSE SubSeq(slides, 1, r.insertionIndex)
                           \o <<r.objectId>>
                           \o SubSeq(slides, r.insertionIndex + 1, Len(slides))
         IN  ApplyRequests(after, Tail(reqs))

NoGroups == [features |-> <<>>, improvements |-> <<>>, fixes |-> <<>>]

SlidesIdle ==
    /\ grouped = NoGroups
    /\ images = NoGroups
    /\ quote = ""
    /\ deck = <<>>
    /\ insertionIndex = Undefined
    /\ groupSlideRequests = <<>>
    /\ otherSlideRequests = <<>>
    /\ followupRequests = <<>>
    /\ groupPos = 0
    /\ bulletI = 0
    /\ imageI = 0
    /\ imageIndex = 0
    /\ script = "monthly"
    /\ csPc = "idle"

\* most bullets over all groups, and most images over all groups, tried
MaxBullets == 13

MaxImages == 10

\* most slides of the template
MaxTemplateSlides == 2

\* three lists of distinct items with at most max items together
Triples(max) ==
    { [features |-> Range(0, a), improvements |-> Range(100, b),
       fixes |-> Range(200, c)] :
        <<a, b, c>> \in { t \in (0 .. max) \X (0 .. max) \X (0 .. max) :
                            t[1] + t[2] + t[3] <= max } }

\* collectImagesByGroup gives a group images only if the group has a bullet
OneBulletWhereImages(im) ==
    [g \in {"features", "improvements", "fixes"} |->
        IF im[g] = <<>> THEN <<>> ELSE <<1>>]

\* The arguments of createSlides: either bullets and no image, or images
\* and one bullet in every group that has images.
CreateSlidesStart ==
    /\ \/ /\ grouped \in Triples(MaxBullets)
          /\ images = NoGroups
       \/ /\ images \in Triples(MaxImages)
          /\ grouped = OneBulletWhereImages(images)
    /\ quote \in {"", "quote"}
    /\ script \in {"monthly", "variant"}
    /\ deck = <<>>
    /\ insertionIndex = Undefined
    /\ groupSlideRequests = <<>>
    /\ otherSlideRequests = <<>>
    /\ followupRequests = <<>>
    /\ groupPos = 0
    /\ bulletI = 0
    /\ imageI = 0
    /\ imageIndex = 0
    /\ csPc = "start"

\* copyTemplatePresentation, presentations.get and the insertion index:
\* slides.length - 1 in monthlyReleasesSlides.ts; in the variant the index
\* of the slide that holds "That's All Folks!", or null when none does.
CopyTemplate ==
    /\ csPc = "start"
    /\ \E n \in 1 .. MaxTemplateSlides :
        /\ deck' = TemplateSlides(n)
        /\ IF script = "monthly"
           THEN insertionIndex' = getInsertionIndex(deck')
           ELSE insertionIndex' \in {Undefined} \cup (0 .. n - 1)
    /\ groupPos' = 1
    /\ bulletI' = 0
    /\ csPc' = "groups"
    /\ UNCHANGED <<grouped, images, quote, groupSlideRequests,
                   otherSlideRequests, followupRequests, imageI,
                   imageIndex, script>>
    /\ UNCHANGED notSlides

\* one iteration of the inner loop: one bullet page of the current group
BulletPage ==
    /\ csPc = "groups"
    /\ groupPos <= Len(GroupKeys)
    /\ LET groupKey   == GroupKeys[groupPos]
           groupItems == grouped[groupKey]
           perPage    == MAX_BULLETS_PER_PAGE(script)
           pageNo     == bulletI \div perPage
           slideId    == <<"slide", groupKey, pageNo>>
           titleBoxId == <<"title", groupKey, pageNo>>
           bodyBoxId  == <<"body", groupKey, pageNo>>
           bulletPoints == BulletSlice(groupItems, bulletI, perPage)
       IN  /\ bulletI < Len(groupItems)
           /\ groupSlideRequests' =
                  Append(groupSlideRequests,
                         CreateSlideReq(slideId, insertionIndex))
           /\ followupRequests' =
                  followupRequests
                  \o << InsertTextReq(titleBoxId, <<groupKey>>),
                        InsertTextReq(bodyBoxId, bulletPoints) >>
           /\ bulletI' = bulletI + perPage
    /\ UNCHANGED <<grouped, images, quote, deck, insertionIndex,
                   otherSlideRequests, groupPos, imageI, imageIndex,
                   script, csPc>>
    /\ UNCHANGED notSlides

\* the inner loop of the current group ends: next group, or the image pages
NextGroup ==
    /\ csPc = "groups"
    /\ groupPos <= Len(GroupKeys)
    /\ bulletI >= Len(grouped[GroupKeys[groupPos]])
    /\ groupPos' = groupPos + 1
    /\ bulletI' = 0
    /\ csPc' = IF groupPos = Len(GroupKeys) THEN "images" ELSE "groups"
    /\ imageI' = 0
    /\ imageIndex' = 0
    /\ UNCHANGED <<grouped, images, quote, deck, insertionIndex,
                   groupSlideRequests, otherSlideRequests,
                   followupRequests, script>>
    /\ UNCHANGED notSlides

\* one iteration of the image loop: one image slide
ImagePage ==
    /\ csPc = "images"
    /\ imageI < Len(allImages)
    /\ LET slideId == <<"images", "all", imageIndex>>
           chunk   == Slice(allImages, imageI, imageI + MAX_IMAGES_PER_PAGE)
       IN  followupRequests' =
               followupRequests \o createImageSlide(script, slideId, chunk)
    /\ imageIndex' = imageIndex + 1
    /\ imageI' = imageI + MAX_IMAGES_PER_PAGE
    /\ UNCHANGED <<grouped, images, quote, deck, insertionIndex,
                   groupSlideRequests, otherSlideRequests, groupPos,
                   bulletI, script, csPc>>
    /\ UNCHANGED notSlides

\* the image loop ends; if (quote) the quote slide is requested
QuoteSlide ==
    /\ csPc = "images"
    /\ imageI >= Len(allImages)
    /\ IF quote # ""
       THEN /\ otherSlideRequests' =
                   Append(otherSlideRequests,
                          CreateSlideReq(<<"slide", "quote", 0>>, Undefined))
            /\ followupRequests' =
                   followupRequests
                   \o << InsertTextReq(<<"title", "quote", 0>>,
                                       <<"Quote of the Day">>),
                         InsertTextReq(<<"body", "quote", 0>>, <<quote>>) >>
       ELSE UNCHANGED <<otherSlideRequests, followupRequests>>
    /\ csPc' = "batch1"
    /\ UNCHANGED <<grouped, images, quote, deck, insertionIndex,
                   groupSlideRequests, groupPos, bulletI, imageI,
                   imageIndex, script>>
    /\ UNCHANGED notSlides

\* batchUpdate({ requests: groupSlideRequests })
BatchUpdateGroupSlides ==
    /\ csPc = "batch1"
    /\ deck' = ApplyRequests(deck, groupSlideRequests)
    /\ csPc' = "batch2"
    /\ UNCHANGED <<grouped, images, quote, insertionIndex,
                   groupSlideRequests, otherSlideRequests,
                   followupRequests, groupPos, bulletI, imageI,
                   imageIndex, script>>
    /\ UNCHANGED notSlides

\* batchUpdate({ requests: [...otherSlideRequests, ...followupRequests] })
BatchUpdateOtherSlides ==
    /\ csPc = "batch2"
    /\ deck' = ApplyRequests(deck, SecondBatch(otherSlideRequests,
                                               followupRequests))
    /\ csPc' = "done"
    /\ UNCHANGED <<grouped, images, quote, insertionIndex,
                   groupSlideRequests, otherSlideRequests,
                   followupRequests, groupPos, bulletI, imageI,
                   imageIndex, script>>
    /\ UNCHANGED notSlides

----------------------------------------------------------------------------
(* The changelog poster with asset rehosting (main, processRepo,           *)
(* collectImagesFromDevPRs, extractMediaLinks and                          *)
(* rehydrateGitHubAssetToUploadcare).  One action per remote call or loop  *)
(* step; what the remote services answer is chosen by the action.          *)

\* exitCode while the process runs
Running == 0 - 1

PosterEnvVars ==
    {"GITHUB_TOKEN", "GITHUB_ORG", "UPLOADCARE_PUBLIC_KEY", "SLACK_TOKEN",
     "OPENAI_API_KEY", "CANNY_API_KEY"}

\* the variables the top level of the poster tests, in the order it does
PosterChecked ==
    <<"GITHUB_TOKEN", "GITHUB_ORG", "UPLOADCARE_PUBLIC_KEY", "SLACK_TOKEN">>

\* the GitHub attachment URLs that PR bodies refer to
GithubUrls == {"gh1", "gh2"}

\* body.match(...) || []: the matches of the URL pattern in a PR body, in
\* order; a body may name a URL twice
Bodies ==
    {<<>>} \cup { <<u>> : u \in GithubUrls }
           \cup { <<u, v>> : u \in GithubUrls, v \in GithubUrls }

\* most repositories, production PRs of a repository, commits of a PR and
\* development PRs of a commit
MaxRepos == 2

MaxPRs == 1

MaxCommits == 1

MaxDevPRs == 2

\* the elements of a sequence
Elems(q) == { q[k] : k \in 1 .. Len(q) }

SetAdd_Push(q, x) == Append(q, x)

\* Set.prototype.add on a Set kept in insertion order
SetAdd(q, x) == IF x \in Elems(q) THEN q ELSE Append(q, x)

RECURSIVE SetAddAll(_, _)
SetAddAll(q, xs) ==
    IF xs = <<>> THEN q ELSE SetAddAll(SetAdd(q, Head(xs)), Tail(xs))

\* Array.from(new Set(matches))
Unique(xs) == SetAddAll(<<>>, xs)

\* `https://ucarecdn.com/${fileId}/` for the fileId the CDN returns; the
\* CDN numbers the files it stores
CdnUrl(fileId) == <<"ucarecdn", fileId>>

\* a counter that stops at 2 ("twice or more")
Bump(n) == IF n >= 2 THEN 2 ELSE n + 1

NoLog == [fails |-> 0, oks |-> 0, late |-> FALSE]

\* rehostLog after one more call of rehydrateGitHubAssetToUploadcare(u)
Logged(log, u, ok) ==
    [log EXCEPT ![u] =
        [fails |-> IF ok THEN @.fails ELSE Bump(@.fails),
         oks   |-> IF ok THEN Bump(@.oks) ELSE @.oks,
         late  |-> @.late \/ @.oks > 0]]

PosterIdle ==
    /\ posterEnv = {}
    /\ pPc = "idle"
    /\ reposLeft = 0
    /\ prsLeft = 0
    /\ commitsLeft = 0
    /\ devPRsLeft = 0
    /\ urlsLeft = <<>>
    /\ results = <<>>
    /\ prImages = <<>>
    /\ summaries = <<>>
    /\ details = <<>>
    /\ rehostCache = <<>>
    /\ filesStored = 0
    /\ rehostLog = [u \in GithubUrls |-> NoLog]
    /\ calls = {}
    /\ failedCall = "none"
    /\ tolerated = {}
    /\ cannyEntries = <<>>
    /\ slackMessages = 0
    /\ exitCode = Running

\* The process starts with all variables set or with exactly one missing.
PosterStart ==
    /\ posterEnv \in {PosterEnvVars}
                     \cup { PosterEnvVars \ {v} : v \in PosterEnvVars }
    /\ pPc = "start"
    /\ reposLeft = 0
    /\ prsLeft = 0
    /\ commitsLeft = 0
    /\ devPRsLeft = 0
    /\ urlsLeft = <<>>
    /\ results = <<>>
    /\ prImages = <<>>
    /\ summaries = <<>>
    /\ details = <<>>
    /\ rehostCache = <<>>
    /\ filesStored = 0
    /\ rehostLog = [u \in GithubUrls |-> NoLog]
    /\ calls = {}
    /\ failedCall = "none"
    /\ tolerated = {}
    /\ cannyEntries = <<>>
    /\ slackMessages = 0
    /\ exitCode = Running

\* process.exit(code), or an uncaught exception / unhandled rejection
\* (code 1), after the remote call `failed` failed
PosterExit_AlwaysZero(code, failed) ==
    /\ pPc' = "exit"
    /\ exitCode' = 0
    /\ failedCall' = failed

PosterExit(code, failed) ==
    /\ pPc' = "exit"
    /\ exitCode' = code
    /\ failedCall' = failed

\* the answers a fetch can have: 2xx, another status, a network error
HttpOutcomes == {"ok", "notOk", "throw"}

\* an OpenAI or Canny call made without its key is refused
KeyOutcomes(key, outcomes) ==
    IF key \in posterEnv THEN outcomes ELSE outcomes \ {"ok"}

\* module top level: the four tests of the environment, then main()
PosterTopLevel ==
    /\ pPc = "start"
    /\ IF \E k \in 1 .. Len(PosterChecked) : PosterChecked[k] \notin posterEnv
       THEN PosterExit(1, "none")
       ELSE /\ pPc' = "getRepos"
            /\ UNCHANGED <<exitCode, failedCall>>
    /\ tolerated' = {}
    /\ UNCHANGED <<posterEnv, reposLeft, prsLeft, commitsLeft, devPRsLeft,
                   urlsLeft, results, prImages, summaries, details,
                   rehostCache, filesStored, rehostLog, calls,
                   cannyEntries, slackMessages>>
    /\ UNCHANGED notPoster

\* getRepos: !res.ok exits with 1, a network error rejects main()
GetRepos ==
    /\ pPc = "getRepos"
    /\ calls' = calls \cup {"repos"}
    /\ \E o \in HttpOutcomes :
        IF o = "ok"
        THEN /\ reposLeft' \in 0 .. MaxRepos
             /\ pPc' = "repo"
             /\ UNCHANGED <<exitCode, failedCall>>
        ELSE /\ PosterExit(1, "repos")
             /\ UNCHANGED reposLeft
    /\ tolerated' = {}
    /\ UNCHANGED <<posterEnv, prsLeft, commitsLeft, devPRsLeft, urlsLeft,
                   results, prImages, summaries, details, rehostCache,
                   filesStored, rehostLog, cannyEntries, slackMessages>>
    /\ UNCHANGED notPoster

\* processRepo, getMergedPRs: res.ok is not tested; an error answer is not
\* an array and prs.filter throws
GetMergedPRs ==
    /\ pPc = "repo"
    /\ reposLeft > 0
    /\ calls' = calls \cup {"pulls"}
    /\ \E o \in HttpOutcomes :
        IF o = "ok"
        THEN \E n \in 0 .. MaxPRs :
                /\ prsLeft' = n
                /\ summaries' = <<>>
                \* if (!prs.length) return null
                /\ reposLeft' = IF n = 0 THEN reposLeft - 1 ELSE reposLeft
                /\ pPc' = IF n = 0 THEN "repo" ELSE "pr"
                /\ UNCHANGED <<exitCode, failedCall>>
        ELSE /\ PosterExit(1, "pulls")
             /\ UNCHANGED <<prsLeft, summaries, reposLeft>>
    /\ tolerated' = {}
    /\ UNCHANGED <<posterEnv, commitsLeft, devPRsLeft, urlsLeft, results,
                   prImages, details, rehostCache, filesStored, rehostLog,
                   cannyEntries, slackMessages>>
    /\ UNCHANGED notPoster

\* getCommits(repoName, pr.number)
GetCommits ==
    /\ pPc = "pr"
    /\ calls' = calls \cup {"commits"}
    /\ \E o \in HttpOutcomes :
        IF o = "ok"
        THEN /\ commitsLeft' \in 1 .. MaxCommits
             /\ pPc' = "summarizePR"
             /\ UNCHANGED <<exitCode, failedCall>>
        ELSE /\ PosterExit(1, "commits")
             /\ UNCHANGED commitsLeft
    /\ tolerated' = {}
    /\ UNCHANGED <<posterEnv, reposLeft, prsLeft, devPRsLeft, urlsLeft,
                   results, prImages, summaries, details, rehostCache,
                   filesStored, rehostLog, cannyEntries, slackMessages>>
    /\ UNCHANGED notPoster

\* summarizePR: the language-model calls; one that fails rejects main()
SummarizePR ==
    /\ pPc = "summarizePR"
    /\ calls' = calls \cup {"summarizePR"}
    /\ \E o \in KeyOutcomes("OPENAI_API_KEY", {"ok", "throw"}) :
        IF o = "ok"
        THEN /\ pPc' = "commit"
             /\ prImages' = <<>>
             /\ UNCHANGED <<exitCode, failedCall>>
        ELSE /\ PosterExit(1, "summarizePR")
             /\ UNCHANGED prImages
    /\ tolerated' = {}
    /\ UNCHANGED <<posterEnv, reposLeft, prsLeft, commitsLeft, devPRsLeft,
                   urlsLeft, results, summaries, details, rehostCache,
                   filesStored, rehostLog, cannyEntries, slackMessages>>
    /\ UNCHANGED notPoster

\* collectImagesFromDevPRs, findPRsByCommit: !res.ok gives [], a network
\* error rejects main()
FindPRsByCommit ==
    /\ pPc = "commit"
    /\ commitsLeft > 0
    /\ calls' = calls \cup {"commitPulls"}
    /\ \E o \in HttpOutcomes :
        IF o = "throw"
        THEN /\ PosterExit(1, "commitPulls")
             /\ tolerated' = {}
             /\ UNCHANGED <<commitsLeft, devPRsLeft>>
        ELSE /\ devPRsLeft' \in (IF o = "ok" THEN 0 .. MaxDevPRs ELSE {0})
             /\ tolerated' = IF o = "ok" THEN {} ELSE {"commitPulls"}
             /\ commitsLeft' = commitsLeft - 1
             /\ pPc' = "devPR"
             /\ UNCHANGED <<exitCode, failedCall>>
    /\ UNCHANGED <<posterEnv, reposLeft, prsLeft, urlsLeft, results,
                   prImages, summaries, details, rehostCache, filesStored,
                   rehostLog, cannyEntries, slackMessages>>
    /\ UNCHANGED notPoster

\* extractMediaLinks(pr.body || ""): the unique matches of the body
ExtractMediaLinks ==
    /\ pPc = "devPR"
    /\ devPRsLeft > 0
    /\ \E body \in Bodies : urlsLeft' = Unique(body)
    /\ results' = <<>>
    /\ pPc' = "url"
    /\ tolerated' = {}
    /\ UNCHANGED <<posterEnv, reposLeft, prsLeft, commitsLeft, devPRsLeft,
                   prImages, summaries, details, rehostCache, filesStored,
                   rehostLog, calls, failedCall, cannyEntries,
                   slackMessages, exitCode>>
    /\ UNCHANGED notPoster

\* rehostCache.has(originalUrl)
CacheHas_Never(cache, u) == FALSE

CacheHas(cache, u) == u \in DOMAIN cache

\* if (rehostCache.has(originalUrl)) { results.push(...); continue; }
CacheHit ==
    /\ pPc = "url"
    /\ urlsLeft # <<>>
    /\ CacheHas(rehostCache, Head(urlsLeft))
    /\ results' = Append(results, rehostCache[Head(urlsLeft)])
    /\ urlsLeft' = Tail(urlsLeft)
    /\ tolerated' = {}
    /\ UNCHANGED <<posterEnv, pPc, reposLeft, prsLeft, commitsLeft,
                   devPRsLeft, prImages, summaries, details, rehostCache,
                   filesStored, rehostLog, calls, failedCall, cannyEntries,
                   slackMessages, exitCode>>
    /\ UNCHANGED notPoster

\* the remote calls rehydrateGitHubAssetToUploadcare makes for an outcome
RehostCalls(o) ==
    IF o \in {"assetThrow", "assetNotOk"} THEN {"asset"}
    ELSE {"asset", "upload"}

RehostOutcomes ==
    {"ok", "assetThrow", "assetNotOk", "uploadThrow", "uploadNotOk"}

\* rehydrateGitHubAssetToUploadcare(githubUrl): the new URL, or null when
\* the fetch or the upload fails or throws
rehydrateGitHubAssetToUploadcare_Rethrow(o, stored) ==
    IF o = "ok" THEN [kind |-> "url", url |-> CdnUrl(stored + 1)]
    ELSE IF o \in {"assetThrow", "uploadThrow"} THEN [kind |-> "throw", url |-> <<>>]
    ELSE [kind |-> "null", url |-> <<>>]

rehydrateGitHubAssetToUploadcare(o, stored) ==
    IF o = "ok" THEN [kind |-> "url", url |-> CdnUrl(stored + 1)]
    ELSE [kind |-> "null", url |-> <<>>]

\* what one iteration of extractMediaLinks stores for a URL that is not in
\* the cache: the cache and the results after it
StoreRehosted_Forgetful(cache, res, u, rehosted) ==
    IF rehosted.kind = "url"
    THEN [cache |-> (u :> rehosted.url),
          results |-> Append(res, rehosted.url)]
    ELSE [cache |-> cache, results |-> res]

StoreRehosted(cache, res, u, rehosted) ==
    IF rehosted.kind = "url"
    THEN [cache |-> cache @@ (u :> rehosted.url),
          results |-> Append(res, rehosted.url)]
    ELSE [cache |-> cache, results |-> res]

\* the rest of the iteration for a URL that is not in the cache
Rehost ==
    /\ pPc = "url"
    /\ urlsLeft # <<>>
    /\ ~CacheHas(rehostCache, Head(urlsLeft))
    /\ \E o \in RehostOutcomes :
        LET u == Head(urlsLeft)
            rehosted == rehydrateGitHubAssetToUploadcare(o, filesStored)
            stored == StoreRehosted(rehostCache, results, u, rehosted)
        IN  /\ calls' = calls \cup RehostCalls(o)
            /\ filesStored' = IF o = "ok" THEN filesStored + 1 ELSE filesStored
            /\ rehostLog' = Logged(rehostLog, u, o = "ok")
            /\ IF rehosted.kind = "throw"
               THEN /\ PosterExit(1, "none")
                    /\ UNCHANGED <<rehostCache, results, urlsLeft>>
               ELSE /\ rehostCache' = stored.cache
                    /\ results' = stored.results
                    /\ urlsLeft' = Tail(urlsLeft)
                    /\ UNCHANGED <<pPc, exitCode, failedCall>>
    /\ tolerated' = {}
    /\ UNCHANGED <<posterEnv, reposLeft, prsLeft, commitsLeft, devPRsLeft,
                   prImages, summaries, details, cannyEntries,
                   slackMessages>>
    /\ UNCHANGED notPoster

\* return results; media.forEach(({ url }) => allImages.add(url))
ExtractReturn ==
    /\ pPc = "url"
    /\ urlsLeft = <<>>
    /\ prImages' = SetAddAll(prImages, results)
    /\ devPRsLeft' = devPRsLeft - 1
    /\ pPc' = "devPR"
    /\ tolerated' = {}
    /\ UNCHANGED <<posterEnv, reposLeft, prsLeft, commitsLeft, urlsLeft,
                   results, summaries, details, rehostCache, filesStored,
                   rehostLog, calls, failedCall, cannyEntries,
                   slackMessages, exitCode>>
    /\ UNCHANGED notPoster

\* the development PRs of the commit are done: next commit
NextCommit ==
    /\ pPc = "devPR"
    /\ devPRsLeft = 0
    /\ pPc' = "commit"
    /\ tolerated' = {}
    /\ UNCHANGED <<posterEnv, reposLeft, prsLeft, commitsLeft, devPRsLeft,
                   urlsLeft, results, prImages, summaries, details,
                   rehostCache, filesStored, rehostLog, calls, failedCall,
                   cannyEntries, slackMessages, exitCode>>
    /\ UNCHANGED notPoster

\* collectImagesFromDevPRs returns; summaries.push({ text, images })
NextPR ==
    /\ pPc = "commit"
    /\ commitsLeft = 0
    /\ summaries' = Append(summaries, prImages)
    /\ prsLeft' = prsLeft - 1
    /\ pPc' = IF prsLeft = 1 THEN "summarizeProject" ELSE "pr"
    /\ tolerated' = {}
    /\ UNCHANGED <<posterEnv, reposLeft, commitsLeft, devPRsLeft, urlsLeft,
                   results, prImages, details, rehostCache, filesStored,
                   rehostLog, calls, failedCall, cannyEntries,
                   slackMessages, exitCode>>
    /\ UNCHANGED notPoster

\* summarizeProjectPRs, then the section with the unique images of the
\* repository; main appends it to details
SummarizeProjectPRs ==
    /\ pPc = "summarizeProject"
    /\ calls' = calls \cup {"summarizeProject"}
    /\ \E o \in KeyOutcomes("OPENAI_API_KEY", {"ok", "throw"}) :
        IF o = "ok"
        THEN /\ details' = Append(details, SetAddAll(<<>>, Flatten(summaries)))
             /\ reposLeft' = reposLeft - 1
             /\ pPc' = "repo"
             /\ UNCHANGED <<exitCode, failedCall>>
        ELSE /\ PosterExit(1, "summarizeProject")
             /\ UNCHANGED <<details, reposLeft>>
    /\ tolerated' = {}
    /\ UNCHANGED <<posterEnv, prsLeft, commitsLeft, devPRsLeft, urlsLeft,
                   results, prImages, summaries, rehostCache, filesStored,
                   rehostLog, cannyEntries, slackMessages>>
    /\ UNCHANGED notPoster

\* !details.trim(): no repository added a section
NothingMerged_Never(d) == FALSE

NothingMerged(d) == d = <<>>

\* the repositories are done: if (!details.trim()) return
ReposDone ==
    /\ pPc = "repo"
    /\ reposLeft = 0
    /\ IF NothingMerged(details)
       THEN PosterExit(0, "none")
       ELSE /\ pPc' = "quote"
            /\ UNCHANGED <<exitCode, failedCall>>
    /\ tolerated' = {}
    /\ UNCHANGED <<posterEnv, reposLeft, prsLeft, commitsLeft, devPRsLeft,
                   urlsLeft, results, prImages, summaries, details,
                   rehostCache, filesStored, rehostLog, calls,
                   cannyEntries, slackMessages>>
    /\ UNCHANGED notPoster

\* formatContributors, formatQuote (getInspirationQuote), formatPRLinks
FormatQuote ==
    /\ pPc = "quote"
    /\ calls' = calls \cup {"quote"}
    /\ \E o \in KeyOutcomes("OPENAI_API_KEY", {"ok", "throw"}) :
        IF o = "ok"
        THEN /\ pPc' = "canny"
             /\ UNCHANGED <<exitCode, failedCall>>
        ELSE PosterExit(1, "quote")
    /\ tolerated' = {}
    /\ UNCHANGED <<posterEnv, reposLeft, prsLeft, commitsLeft, devPRsLeft,
                   urlsLeft, results, prImages, summaries, details,
                   rehostCache, filesStored, rehostLog, cannyEntries,
                   slackMessages>>
    /\ UNCHANGED notPoster

CannyAccepted_Any(o) == TRUE

\* postToCanny returns result.id: the fetch resolved, the body parsed, the
\* status was 2xx and the body had no error field
CannyAccepted(o) == o = "ok"

\* postToCanny: a network error rejects main(); a body that does not
\* parse, a status other than 2xx or an error field exit with 1
PostToCanny ==
    /\ pPc = "canny"
    /\ calls' = calls \cup {"canny"}
    /\ \E o \in KeyOutcomes("CANNY_API_KEY",
                            {"ok", "throw", "notJson", "notOk", "errorField"}) :
        /\ cannyEntries' = IF o = "ok" THEN Append(cannyEntries, details)
                           ELSE cannyEntries
        /\ IF CannyAccepted(o)
           THEN /\ pPc' = "slack"
                /\ UNCHANGED <<exitCode, failedCall>>
           ELSE PosterExit(1, "canny")
    /\ tolerated' = {}
    /\ UNCHANGED <<posterEnv, reposLeft, prsLeft, commitsLeft, devPRsLeft,
                   urlsLeft, results, prImages, summaries, details,
                   rehostCache, filesStored, rehostLog, slackMessages>>
    /\ UNCHANGED notPoster

\* postToSlack: a result that is not ok and a thrown error are logged;
\* main returns
PostToSlack ==
    /\ pPc = "slack"
    /\ calls' = calls \cup {"slack"}
    /\ \E o \in {"ok", "notOk", "throw"} :
        /\ slackMessages' = IF o = "ok" THEN slackMessages + 1 ELSE slackMessages
        /\ PosterExit(0, IF o = "ok" THEN "none" ELSE "slack")
    /\ tolerated' = {}
    /\ UNCHANGED <<posterEnv, reposLeft, prsLeft, commitsLeft, devPRsLeft,
                   urlsLeft, results, prImages, summaries, details,
                   rehostCache, filesStored, rehostLog, cannyEntries>>
    /\ UNCHANGED notPoster


----------------------------------------------------------------------------
(* The changelog poster without rehosting (postToCanny.ts): no Slack      *)
(* message, and the images are the links found in the body of the PR.     *)

PlainEnvVars ==
    {"GITHUB_TOKEN", "GITHUB_ORG", "OPENAI_API_KEY", "CANNY_API_KEY"}

PlainChecked == <<"GITHUB_TOKEN", "GITHUB_ORG">>

\* (pr.body || "").match(...) || []: the matches are not made unique
PlainBodies == {<<>>, <<"gh1">>, <<"gh1", "gh1">>}

PlainIdle ==
    /\ plainEnv = {}
    /\ plainPc = "idle"
    /\ plainReposLeft = 0
    /\ plainPrsLeft = 0
    /\ plainSummaries = <<>>
    /\ plainDetails = <<>>
    /\ plainCalls = {}
    /\ plainFailed = "none"
    /\ plainEntries = <<>>
    /\ plainExit = Running

PlainStart ==
    /\ plainEnv \in {PlainEnvVars}
                    \cup { PlainEnvVars \ {v} : v \in PlainEnvVars }
    /\ plainPc = "start"
    /\ plainReposLeft = 0
    /\ plainPrsLeft = 0
    /\ plainSummaries = <<>>
    /\ plainDetails = <<>>
    /\ plainCalls = {}
    /\ plainFailed = "none"
    /\ plainEntries = <<>>
    /\ plainExit = Running

PlainEnd(code, failed) ==
    /\ plainPc' = "exit"
    /\ plainExit' = code
    /\ plainFailed' = failed

PlainKeyOutcomes(key, outcomes) ==
    IF key \in plainEnv THEN outcomes ELSE outcomes \ {"ok"}

PlainTopLevel ==
    /\ plainPc = "start"
    /\ IF \E k \in 1 .. Len(PlainChecked) : PlainChecked[k] \notin plainEnv
       THEN PlainEnd(1, "none")
       ELSE /\ plainPc' = "getRepos"
            /\ UNCHANGED <<plainExit, plainFailed>>
    /\ UNCHANGED <<plainEnv, plainReposLeft, plainPrsLeft, plainSummaries,
                   plainDetails, plainCalls, plainEntries>>
    /\ UNCHANGED notPlain

PlainGetRepos ==
    /\ plainPc = "getRepos"
    /\ plainCalls' = plainCalls \cup {"repos"}
    /\ \E o \in HttpOutcomes :
        IF o = "ok"
        THEN /\ plainReposLeft' \in 0 .. MaxRepos
             /\ plainPc' = "repo"
             /\ UNCHANGED <<plainExit, plainFailed>>
        ELSE /\ PlainEnd(1, "repos")
             /\ UNCHANGED plainReposLeft
    /\ UNCHANGED <<plainEnv, plainPrsLeft, plainSummaries, plainDetails,
                   plainEntries>>
    /\ UNCHANGED notPlain

\* getMergedPRs; if (!prs.length) continue
PlainGetMergedPRs ==
    /\ plainPc = "repo"
    /\ plainReposLeft > 0
    /\ plainCalls' = plainCalls \cup {"pulls"}
    /\ \E o \in HttpOutcomes :
        IF o = "ok"
        THEN \E n \in 0 .. MaxPRs :
                /\ plainPrsLeft' = n
                /\ plainSummaries' = <<>>
                /\ plainReposLeft' =
                      IF n = 0 THEN plainReposLeft - 1 ELSE plainReposLeft
                /\ plainPc' = IF n = 0 THEN "repo" ELSE "pr"
                /\ UNCHANGED <<plainExit, plainFailed>>
        ELSE /\ PlainEnd(1, "pulls")
             /\ UNCHANGED <<plainPrsLeft, plainSummaries, plainReposLeft>>
    /\ UNCHANGED <<plainEnv, plainDetails, plainEntries>>
    /\ UNCHANGED notPlain

PlainGetCommits ==
    /\ plainPc = "pr"
    /\ plainCalls' = plainCalls \cup {"commits"}
    /\ \E o \in HttpOutcomes :
        IF o = "ok"
        THEN /\ plainPc' = "summarizePR"
             /\ UNCHANGED <<plainExit, plainFailed>>
        ELSE PlainEnd(1, "commits")
    /\ UNCHANGED <<plainEnv, plainReposLeft, plainPrsLeft, plainSummaries,
                   plainDetails, plainEntries>>
    /\ UNCHANGED notPlain

\* summarizePR, then the image links of the body; summaries.push
PlainSummarizePR ==
    /\ plainPc = "summarizePR"
    /\ plainCalls' = plainCalls \cup {"summarizePR"}
    /\ \E o \in PlainKeyOutcomes("OPENAI_API_KEY", {"ok", "throw"}) :
        IF o = "ok"
        THEN /\ \E body \in PlainBodies :
                plainSummaries' = Append(plainSummaries, body)
             /\ plainPrsLeft' = plainPrsLeft - 1
             /\ plainPc' = IF plainPrsLeft = 1 THEN "summarizeProject" ELSE "pr"
             /\ UNCHANGED <<plainExit, plainFailed>>
        ELSE /\ PlainEnd(1, "summarizePR")
             /\ UNCHANGED <<plainSummaries, plainPrsLeft>>
    /\ UNCHANGED <<plainEnv, plainReposLeft, plainDetails, plainEntries>>
    /\ UNCHANGED notPlain

\* summarizeProjectPRs, then the section with every image of every summary
PlainSummarizeProjectPRs ==
    /\ plainPc = "summarizeProject"
    /\ plainCalls' = plainCalls \cup {"summarizeProject"}
    /\ \E o \in PlainKeyOutcomes("OPENAI_API_KEY", {"ok", "throw"}) :
        IF o = "ok"
        THEN /\ plainDetails' = Append(plainDetails, Flatten(plainSummaries))
             /\ plainReposLeft' = plainReposLeft - 1
             /\ plainPc' = "repo"
             /\ UNCHANGED <<plainExit, plainFailed>>
        ELSE /\ PlainEnd(1, "summarizeProject")
             /\ UNCHANGED <<plainDetails, plainReposLeft>>
    /\ UNCHANGED <<plainEnv, plainPrsLeft, plainSummaries, plainEntries>>
    /\ UNCHANGED notPlain

\* if (!details.trim()) return
PlainReposDone ==
    /\ plainPc = "repo"
    /\ plainReposLeft = 0
    /\ IF NothingMerged(plainDetails)
       THEN PlainEnd(0, "none")
       ELSE /\ plainPc' = "quote"
            /\ UNCHANGED <<plainExit, plainFailed>>
    /\ UNCHANGED <<plainEnv, plainReposLeft, plainPrsLeft, plainSummaries,
                   plainDetails, plainCalls, plainEntries>>
    /\ UNCHANGED notPlain

PlainGetInspirationQuote ==
    /\ plainPc = "quote"
    /\ plainCalls' = plainCalls \cup {"quote"}
    /\ \E o \in PlainKeyOutcomes("OPENAI_API_KEY", {"ok", "throw"}) :
        IF o = "ok"
        THEN /\ plainPc' = "canny"
             /\ UNCHANGED <<plainExit, plainFailed>>
        ELSE PlainEnd(1, "quote")
    /\ UNCHANGED <<plainEnv, plainReposLeft, plainPrsLeft, plainSummaries,
                   plainDetails, plainEntries>>
    /\ UNCHANGED notPlain

\* postToCanny, the last statement of main
PlainPostToCanny ==
    /\ plainPc = "canny"
    /\ plainCalls' = plainCalls \cup {"canny"}
    /\ \E o \in PlainKeyOutcomes("CANNY_API_KEY",
                            {"ok", "throw", "notJson", "notOk", "errorField"}) :
        IF o = "ok"
        THEN /\ plainEntries' = Append(plainEntries, plainDetails)
             /\ PlainEnd(0, "none")
        ELSE /\ PlainEnd(1, "canny")
             /\ UNCHANGED plainEntries
    /\ UNCHANGED <<plainEnv, plainReposLeft, plainPrsLeft, plainSummaries,
                   plainDetails>>
    /\ UNCHANGED notPlain

----------------------------------------------------------------------------
(* The weekly story-points script (postMetrics, fetchRecentlyClosedIssues, *)
(* fetchProjectData, aggregateIssuesByAuthor, postImageToSlack).           *)

WeeklyEnvVars == {"GITHUB_TOKEN", "SLACK_TOKEN"}

\* the repositories of the organization, in the order of the answer, and
\* the most closed issues in all of them
WeeklyRepos == <<"web", "api">>

MaxClosedIssues == 2

\* author.login of an issue; NoAuthor is an issue whose author is null.
\* "7" is a login that is an array index, which objects list first;
\* "constructor" is a login that names a property every object inherits.
Logins == {"ann", "7", "constructor"}

NoAuthor == ""

IndexKeys == {"7"}

\* the keys of Object.prototype: authorStats[key] is truthy for them in
\* the empty object already
PrototypeKeys == {"constructor"}

\* closedAt, as a day number
ClosedAts == {1, 2}

\* projectData.size: absent, a number field or a text / single-select field
NoSize == [type |-> "undefined", num |-> 0, str |-> <<>>]

SizeValues ==
    {NoSize,
     [type |-> "number", num |-> 2, str |-> <<>>],
     [type |-> "string", num |-> 0, str |-> <<"3">>],
     [type |-> "string", num |-> 0, str |-> <<"X", "L">>]}

NoProjectData == [present |-> FALSE, size |-> NoSize]

DigitChars == <<"0", "1", "2", "3", "4", "5", "6", "7", "8", "9">>

IsDigit(c) == \E k \in 1 .. 10 : DigitChars[k] = c

DigitValue(c) == (CHOOSE k \in 1 .. 10 : DigitChars[k] = c) - 1

\* parseInt(str, 10) of an unsigned string: the value of its longest prefix
\* of digits, NaN when it has none
RECURSIVE ParseDigits(_, _)
ParseDigits(str, acc) ==
    IF str = <<>> \/ ~IsDigit(Head(str)) THEN acc
    ELSE ParseDigits(Tail(str), 10 * acc + DigitValue(Head(str)))

parseInt(str) ==
    IF str = <<>> \/ ~IsDigit(Head(str)) THEN [nan |-> TRUE, val |-> 0]
    ELSE [nan |-> FALSE, val |-> ParseDigits(str, 0)]

\* const size = typeof size === "string" ? parseInt(size, 10) || 0
\*                                       : (size as number) ?? 0
SizeOf(issue) ==
    LET size == issue.projectData.size
    IN  IF ~issue.projectData.present THEN 0
        ELSE IF size.type = "string"
             THEN (IF parseInt(size.str).nan THEN 0 ELSE parseInt(size.str).val)
        ELSE IF size.type = "number" THEN size.num
        ELSE 0

\* Array.prototype.sort with (a, b) => key(b) - key(a): stable, descending.
\* InsertDesc puts index i behind every index whose key is not smaller.
RECURSIVE InsertDesc(_, _, _)
InsertDesc(idx, keys, i) ==
    IF idx = <<>> THEN <<i>>
    ELSE IF keys[Head(idx)] >= keys[i]
         THEN <<Head(idx)>> \o InsertDesc(Tail(idx), keys, i)
         ELSE <<i>> \o idx

RECURSIVE SortedIndexes(_, _)
SortedIndexes(keys, n) ==
    IF n = 0 THEN <<>> ELSE InsertDesc(SortedIndexes(keys, n - 1), keys, n)

SortDesc(q, keys) ==
    LET idx == SortedIndexes(keys, Len(q)) IN [k \in 1 .. Len(q) |-> q[idx[k]]]

\* the order in which an object lists its keys: index keys first, then the
\* other keys in the order they were added
IsIndexKey(e) == e.author \in IndexKeys

IsNameKey(e) == e.author \notin IndexKeys

ObjectOrder(entries) ==
    SelectSeq(entries, IsIndexKey) \o SelectSeq(entries, IsNameKey)

\* issue.author?.login ?? "unknown"
AuthorOf(issue) == IF issue.author = NoAuthor THEN "unknown" ELSE issue.author

\* authorStats[author].issues.push(issue): for an inherited key no entry
\* was created, the value found has no issues and push throws a TypeError
PushThrows(issue) == AuthorOf(issue) \in PrototypeKeys

\* the body of issues.forEach in aggregateIssuesByAuthor, when it returns
AddToAuthor(stats, issue) ==
    LET author == AuthorOf(issue)
        known == \/ \E k \in 1 .. Len(stats) : stats[k].author = author
                 \/ author \in PrototypeKeys
        withKey == IF known THEN stats
                   ELSE ObjectOrder(Append(stats,
                            [author |-> author, totalSize |-> 0, issues |-> <<>>]))
    IN  [k \in 1 .. Len(withKey) |->
            IF withKey[k].author = author
            THEN [withKey[k] EXCEPT !.totalSize = @ + SizeOf(issue),
                                    !.issues = Append(@, issue)]
            ELSE withKey[k]]

RECURSIVE ForEachIssue(_, _)
ForEachIssue(stats, q) ==
    IF q = <<>> THEN stats ELSE ForEachIssue(AddToAuthor(stats, Head(q)), Tail(q))

\* aggregateIssuesByAuthor throws out of issues.forEach
aggregateThrows(q) == \E k \in 1 .. Len(q) : PushThrows(q[k])

\* what aggregateIssuesByAuthor returns when it does not throw
aggregateIssuesByAuthor(q) ==
    LET stats == ForEachIssue(<<>>, q)
    IN  ObjectOrder(SortDesc(stats, [k \in 1 .. Len(stats) |-> stats[k].totalSize]))

\* issues.sort((a, b) => closedAt(b) - closedAt(a))
SortByClosedAt(q) == SortDesc(q, [k \in 1 .. Len(q) |-> q[k].closedAt])

RECURSIVE SumSeq(_)
SumSeq(q) == IF q = <<>> THEN 0 ELSE Head(q) + SumSeq(Tail(q))

\* result.organization.repositories.nodes, as the number of closed issues
\* of each repository
RepoSizeLists ==
    { q \in [1 .. Len(WeeklyRepos) -> 0 .. MaxClosedIssues] :
        SumSeq(q) <= MaxClosedIssues }

\* what the try / catch around fetchProjectData leaves in
\* enrichedIssue.projectData: the data, nothing when the lookup threw
fetchProjectData_Uncaught(o) ==
    IF o.kind = "throw" THEN [kind |-> "throw", data |-> NoProjectData]
    ELSE [kind |-> "data", data |-> [present |-> TRUE, size |-> o.size]]

fetchProjectData(o) ==
    IF o.kind = "throw" THEN [kind |-> "caught", data |-> NoProjectData]
    ELSE [kind |-> "data", data |-> [present |-> TRUE, size |-> o.size]]

LookupOutcomes ==
    {[kind |-> "throw", size |-> NoSize]}
        \cup { [kind |-> "ok", size |-> sz] : sz \in SizeValues }

\* issues.push(enrichedIssue), after the try / catch
PushIssue_SkipFailed(q, issue, looked) ==
    IF looked.kind = "caught" THEN q
    ELSE Append(q, [issue EXCEPT !.projectData = looked.data])

PushIssue(q, issue, looked) ==
    Append(q, [issue EXCEPT !.projectData = looked.data])

WeeklyIdle ==
    /\ weeklyEnv = {}
    /\ wPc = "idle"
    /\ repoSizes = <<>>
    /\ wRepo = 0
    /\ wIssue = 0
    /\ issues = <<>>
    /\ failedLookups = {}
    /\ authorStats = <<>>
    /\ wRemoteCalls = 0
    /\ chartFile = FALSE
    /\ slackUploads = 0
    /\ topPerformer = NoAuthor
    /\ weeklyFailed = "none"
    /\ weeklyExit = Running

WeeklyStart ==
    /\ weeklyEnv \in SUBSET WeeklyEnvVars
    /\ wPc = "query"
    /\ repoSizes = <<>>
    /\ wRepo = 0
    /\ wIssue = 0
    /\ issues = <<>>
    /\ failedLookups = {}
    /\ authorStats = <<>>
    /\ wRemoteCalls = 0
    /\ chartFile = FALSE
    /\ slackUploads = 0
    /\ topPerformer = NoAuthor
    /\ weeklyFailed = "none"
    /\ weeklyExit = Running

\* main: catch (err) { process.exit(1) }, or the end of main
WeeklyEnd(code, failed) ==
    /\ wPc' = "exit"
    /\ weeklyExit' = code
    /\ weeklyFailed' = failed

\* fetchRecentlyClosedIssues up to its loop: createGraphQLClient, then the
\* recentlyClosedIssues query
FetchRecentlyClosedIssues ==
    /\ wPc = "query"
    /\ IF "GITHUB_TOKEN" \notin weeklyEnv
       THEN /\ WeeklyEnd(1, "none")
            /\ UNCHANGED <<repoSizes, wRepo, wIssue, wRemoteCalls>>
       ELSE /\ wRemoteCalls' = wRemoteCalls + 1
            /\ \E o \in {"ok", "throw"} :
                IF o = "ok"
                THEN /\ repoSizes' \in RepoSizeLists
                     /\ wRepo' = 1
                     /\ wIssue' = 1
                     /\ wPc' = "issue"
                     /\ UNCHANGED <<weeklyExit, weeklyFailed>>
                ELSE /\ WeeklyEnd(1, "query")
                     /\ UNCHANGED <<repoSizes, wRepo, wIssue>>
    /\ UNCHANGED <<weeklyEnv, issues, failedLookups, authorStats, chartFile,
                   slackUploads, topPerformer>>
    /\ UNCHANGED notWeekly

\* one iteration of the inner loop: the issue, its lookup, the push
FetchProjectData ==
    /\ wPc = "issue"
    /\ wRepo <= Len(repoSizes)
    /\ wIssue <= repoSizes[wRepo]
    /\ \E author \in Logins \cup {NoAuthor}, closedAt \in ClosedAts,
          o \in LookupOutcomes :
        LET issue == [repo |-> wRepo, number |-> wIssue, author |-> author,
                      closedAt |-> closedAt, projectData |-> NoProjectData]
            looked == fetchProjectData(o)
        IN  /\ wRemoteCalls' = wRemoteCalls + 1
            /\ failedLookups' = IF o.kind = "throw"
                                THEN failedLookups \cup {<<wRepo, wIssue>>}
                                ELSE failedLookups
            /\ IF looked.kind = "throw"
               THEN /\ WeeklyEnd(1, "none")
                    /\ UNCHANGED <<issues, wIssue>>
               ELSE /\ issues' = PushIssue(issues, issue, looked)
                    /\ wIssue' = wIssue + 1
                    /\ UNCHANGED <<wPc, weeklyExit, weeklyFailed>>
    /\ UNCHANGED <<weeklyEnv, repoSizes, wRepo, authorStats, chartFile,
                   slackUploads, topPerformer>>
    /\ UNCHANGED notWeekly

\* the issues of the repository are done: next repository
NextRepo ==
    /\ wPc = "issue"
    /\ wRepo <= Len(repoSizes)
    /\ wIssue > repoSizes[wRepo]
    /\ wRepo' = wRepo + 1
    /\ wIssue' = 1
    /\ UNCHANGED <<weeklyEnv, wPc, repoSizes, issues, failedLookups,
                   authorStats, wRemoteCalls, chartFile, slackUploads,
                   topPerformer, weeklyFailed, weeklyExit>>
    /\ UNCHANGED notWeekly

\* return issues.sort(...)
ReturnIssues ==
    /\ wPc = "issue"
    /\ wRepo > Len(repoSizes)
    /\ issues' = SortByClosedAt(issues)
    /\ wPc' = "aggregate"
    /\ UNCHANGED <<weeklyEnv, repoSizes, wRepo, wIssue, failedLookups,
                   authorStats, wRemoteCalls, chartFile, slackUploads,
                   topPerformer, weeklyFailed, weeklyExit>>
    /\ UNCHANGED notWeekly

\* const authorStats = aggregateIssuesByAuthor(closedIssues)
Aggregate ==
    /\ wPc = "aggregate"
    /\ IF aggregateThrows(issues)
       THEN /\ WeeklyEnd(1, "aggregate")
            /\ UNCHANGED authorStats
       ELSE /\ authorStats' = aggregateIssuesByAuthor(issues)
            /\ wPc' = "chart"
            /\ UNCHANGED <<weeklyFailed, weeklyExit>>
    /\ UNCHANGED <<weeklyEnv, repoSizes, wRepo, wIssue, issues,
                   failedLookups, wRemoteCalls, chartFile, slackUploads,
                   topPerformer>>
    /\ UNCHANGED notWeekly

\* generateTerminalBarChart, then generateImageChart writes the file
GenerateImageChart ==
    /\ wPc = "chart"
    /\ chartFile' = TRUE
    /\ wPc' = "slack"
    /\ UNCHANGED <<weeklyEnv, repoSizes, wRepo, wIssue, issues,
                   failedLookups, authorStats, wRemoteCalls, slackUploads,
                   topPerformer, weeklyFailed, weeklyExit>>
    /\ UNCHANGED notWeekly

\* postImageToSlack(imagePath, SLACK_CHANNEL_ID, Object.keys(authorStats)[0])
PostImageToSlack ==
    /\ wPc = "slack"
    /\ topPerformer' = IF authorStats = <<>> THEN NoAuthor
                       ELSE authorStats[1].author
    /\ IF "SLACK_TOKEN" \notin weeklyEnv
       THEN /\ WeeklyEnd(1, "none")
            /\ UNCHANGED <<wRemoteCalls, slackUploads>>
       ELSE /\ wRemoteCalls' = wRemoteCalls + 1
            /\ \E o \in {"ok", "notOk", "throw"} :
                IF o = "ok"
                THEN /\ slackUploads' = slackUploads + 1
                     /\ WeeklyEnd(0, "none")
                ELSE /\ WeeklyEnd(1, "slack")
                     /\ UNCHANGED slackUploads
    /\ UNCHANGED <<weeklyEnv, repoSizes, wRepo, wIssue, issues,
                   failedLookups, authorStats, chartFile>>
    /\ UNCHANGED notWeekly

----------------------------------------------------------------------------
(* One run of the slide generator: main of monthlyReleasesSlides.ts.       *)

SchedIdle ==
    /\ schedDate = [day |-> 0, ms |-> 0]
    /\ schedLog = <<>>

GenEnvVars == {"OPENAI_API_KEY", "CANNY_API_KEY", "SLACK_TOKEN"}

GenIdle ==
    /\ genEnv = {}
    /\ genTrigger = "none"
    /\ genNow = [day |-> 0, ms |-> 0]
    /\ genPc = "idle"
    /\ feed = <<>>
    /\ skip = 0
    /\ genEntries = <<>>
    /\ pageRequests = <<>>
    /\ batchI = 0
    /\ permissions = 0
    /\ imageCandidates = <<>>
    /\ probes = <<>>
    /\ imageMap = <<>>
    /\ createdImages = <<>>
    /\ genCalls = {}
    /\ genDone = {}
    /\ genFailed = "none"
    /\ genSlack = 0
    /\ genExit = Running

KudosIdle ==
    /\ kudosScript = "none"
    /\ commitsSeen = 0
    /\ allContributors = <<>>
    /\ kudosDetails = <<>>
    /\ kudosPc = "idle"

----------------------------------------------------------------------------
(* Bounds of the cycle harness. *)

\* number of 4-week cycles after the anchor that the dates cover
MaxCycles == 12

\* number of days before the anchor that the dates cover
DaysBefore == 60

\* instants of a day that are tried: midnight, one millisecond later, the
\* scheduled run time 13:00, the last millisecond
MsSamples == {0, 1, 13 * 60 * 60 * 1000, DayMs - 1}

CycleDays == (anchor.day - DaysBefore) .. (anchor.day + 28 * MaxCycles + 7)

NoDate == [day |-> 0, ms |-> 0]

CycleIdle ==
    /\ date = NoDate
    /\ cycleResult = "none"
    /\ cyclePc = "idle"

CycleStart ==
    /\ date \in [day : CycleDays, ms : MsSamples]
    /\ cycleResult = "none"
    /\ cyclePc = "call"

\* shouldRun / the test body: result = isBeginningOfCycle(date)
CallIsBeginningOfCycle ==
    /\ cyclePc = "call"
    /\ cycleResult' = isBeginningOfCycle(date)
    /\ cyclePc' = "done"
    /\ UNCHANGED date
    /\ UNCHANGED notCycle

NextCycle == CallIsBeginningOfCycle

InitCycle ==
    CycleStart /\ ChunkIdle /\ SlidesIdle /\ PosterIdle /\ WeeklyIdle
               /\ PlainIdle /\ SchedIdle /\ GenIdle /\ KudosIdle

SpecCycle == InitCycle /\ [][NextCycle]_vars

----------------------------------------------------------------------------
(* The schedule of the slide workflow: cron "0 13 * * MON".  Every run     *)
(* calls shouldRun() with the instant at which it starts.                  *)

\* number of weekly runs that are followed
MaxTriggers == 48

\* 13:00 UTC, the time of the cron expression
CronMs == 13 * 60 * 60 * 1000

\* how long after 13:00 a scheduled run starts ("around 8am cst"): at
\* once, a minute late, an hour late
StartDelays == {0, 60 * 1000, 60 * 60 * 1000}

\* shouldRun: isBeginningOfCycle(new Date())
shouldRun_Always(now) == TRUE

shouldRun(now) == isBeginningOfCycle(now)

\* before the first run of the anchor week
SchedStart ==
    /\ schedDate = NoDate
    /\ schedLog = <<>>

\* the next Monday 13:00 comes: the workflow runs
CronTrigger ==
    /\ Len(schedLog) < MaxTriggers
    /\ \E delay \in StartDelays :
        LET now == [day |-> anchor.day + 7 * Len(schedLog),
                    ms |-> CronMs + delay]
        IN  /\ schedDate' = now
            /\ schedLog' = Append(schedLog,
                              [day |-> now.day, passed |-> shouldRun(now)])
    /\ UNCHANGED notSched

InitSchedule ==
    SchedStart /\ CycleIdle /\ ChunkIdle /\ SlidesIdle /\ PosterIdle
               /\ WeeklyIdle /\ PlainIdle /\ GenIdle /\ KudosIdle

NextSchedule == CronTrigger

SpecSchedule == InitSchedule /\ [][NextSchedule]_vars

----------------------------------------------------------------------------
(* One run of the slide generator: main of monthlyReleasesSlides.ts, with  *)
(* the page loop of fetchRecentChangelogEntries.                           *)

\* const limit = 100
limit == 100

\* const BATCH_SIZE = 10
BATCH_SIZE == 10

\* EDITORS.length + 1: one writer permission per editor, one reader for anyone
PermissionCalls == 3

\* number of full pages of the longest feed
MaxPages == 2

\* a < b on Date values
DateBefore(a, b) == a.day < b.day \/ (a.day = b.day /\ a.ms < b.ms)

\* new Date(Date.now() - 28 * 24 * 60 * 60 * 1000)
fourWeeksAgo(now) == [day |-> now.day - 28, ms |-> now.ms]

IsTooOld_Inclusive(created, now) ==
    ~ DateBefore(fourWeeksAgo(now), created)

\* new Date(entry.created) < fourWeeksAgo
IsTooOld(created, now) == DateBefore(created, fourWeeksAgo(now))

\* for (const entry of page): the entries pushed and keepGoing after the
\* loop, which breaks at the first entry of the page that is too old
ScanPage(page, acc, now) ==
    LET old == { i \in 1 .. Len(page) : IsTooOld(page[i].created, now) }
        stop == CHOOSE i \in old : \A j \in old : i <= j
    IN  IF old = {}
        THEN [entries |-> acc \o page, keepGoing |-> TRUE]
        ELSE [entries |-> acc \o SubSeq(page, 1, stop - 1),
              keepGoing |-> FALSE]

\* the answer of entries/list to { limit, skip }
ServePage(f, s, l) == Slice(f, s, s + l)

NextSkip_Half(s) == s + limit \div 2

\* skip += limit
NextSkip(s) == s + limit

Awaited_FireAndForget(o) == TRUE

\* await: main goes on after a call only when the call resolved
Awaited(o) == o = "ok"

\* the feeds tried: n entries, the first too-old one at position firstOld
\* (n + 1: none); edge puts an entry exactly 28 days old before it and makes
\* it too old by one millisecond; tail makes the entries after it recent
RecentCreated(now, i) == [day |-> now.day - (i % 27), ms |-> 0]

FeedEntry(now, i, firstOld, edge, tail) ==
    [id |-> i,
     created |->
        IF i < firstOld
        THEN IF edge /\ i = firstOld - 1
             THEN [day |-> now.day - 28, ms |-> now.ms]
             ELSE RecentCreated(now, i)
        ELSE IF i = firstOld
        THEN IF edge
             THEN [day |-> now.day - 28, ms |-> now.ms - 1]
             ELSE [day |-> now.day - 40, ms |-> 0]
        ELSE IF tail
             THEN RecentCreated(now, i)
             ELSE [day |-> now.day - 41, ms |-> now.ms]]

MakeFeed(now, n, firstOld, edge, tail) ==
    [i \in 1 .. n |-> FeedEntry(now, i, firstOld, edge, tail)]

FeedLengths ==
    {0, 1, 2} \cup { k * limit + e : k \in 1 .. MaxPages, e \in {0 - 1, 0, 1} }

FirstOldPositions(n) ==
    {1, 2, limit, limit + 1, limit + 2, n, n + 1} \cap (1 .. n + 1)

FeedsTried(now) ==
    UNION { { MakeFeed(now, n, firstOld, edge, tail) :
                firstOld \in FirstOldPositions(n),
                edge \in BOOLEAN, tail \in BOOLEAN } : n \in FeedLengths }

SmallFeeds(now) ==
    { MakeFeed(now, n, n + 1, FALSE, FALSE) : n \in {0, 1, BATCH_SIZE + 1} }

\* const MAX_IMAGE_SIZE_BYTES = 10 * 1024 * 1024
MAX_IMAGE_SIZE_BYTES == 10 * 1024 * 1024

\* const supportedFormats
supportedFormats ==
    {"image/jpeg", "image/jpg", "image/png", "image/gif", "image/svg+xml"}

\* the content-type headers tried, as the media type followed by its
\* parameters; <<>> is a response without the header
ContentTypes ==
    {<<>>, <<"image/png">>, <<"image/jpeg", "charset=binary">>,
     <<"image/webp">>, <<"text/html">>}

\* the content-length headers tried: none, "0", "10485760", "10485761"
ContentLengths ==
    {<<>>, <<"0">>, <<"1", "0", "4", "8", "5", "7", "6", "0">>,
     <<"1", "0", "4", "8", "5", "7", "6", "1">>}

\* what fetch(url, { method: "HEAD" }) can give: a network error, a status
\* other than 2xx, or a 2xx response with its headers
HeadResponses ==
    { [status |-> st, contentType |-> <<>>, contentLength |-> <<>>] :
        st \in {"throw", "notOk"} }
    \cup { [status |-> "ok", contentType |-> ct, contentLength |-> cl] :
            ct \in ContentTypes, cl \in ContentLengths }

\* contentType.includes(format)
Includes(contentType, format) ==
    \E k \in 1 .. Len(contentType) : contentType[k] = format

isImageAccessible_AnyFormat(response) ==
    /\ response.status = "ok"
    /\ ~ (/\ response.contentLength # <<>>
          /\ ~ parseInt(response.contentLength).nan
          /\ parseInt(response.contentLength).val > MAX_IMAGE_SIZE_BYTES)

\* isImageAccessible(url), given the answer to its HEAD request; the catch
\* block turns a thrown error into false
isImageAccessible(response) ==
    IF response.status = "throw" THEN FALSE
    ELSE IF response.status # "ok" THEN FALSE
    ELSE IF \/ response.contentType = <<>>
            \/ ~ \E format \in supportedFormats :
                    Includes(response.contentType, format)
         THEN FALSE
    ELSE IF /\ response.contentLength # <<>>
            /\ ~ parseInt(response.contentLength).nan
            /\ parseInt(response.contentLength).val > MAX_IMAGE_SIZE_BYTES
         THEN FALSE
    ELSE TRUE

\* the lists of images that collectImagesByGroup probes, in order; URLs
\* are numbered from 1 and an entry may show an image twice
CandidateLists == {<<1>>, <<1, 2>>, <<1, 1>>}

\* the followupRequests of the image slides: allImages in chunks of
\* MAX_IMAGES_PER_PAGE, one createImageSlide per chunk
ImageSlideRequests(imgs) ==
    Flatten([k \in 1 .. (Len(imgs) + MAX_IMAGES_PER_PAGE - 1)
                            \div MAX_IMAGES_PER_PAGE |->
                createImageSlide("monthly", <<"images", "all", k - 1>>,
                                 Slice(imgs, (k - 1) * MAX_IMAGES_PER_PAGE,
                                       k * MAX_IMAGES_PER_PAGE))])

\* the url of every createImage request of a list
CreateImageUrls(reqs) ==
    LET sel == SelectSeq(reqs, LAMBDA r : r.op = "createImage")
    IN  [i \in 1 .. Len(sel) |-> sel[i].url]

\* the instants of a scheduled run, and those of a manual one
ScheduledNows ==
    { [day |-> anchor.day + 7 * k, ms |-> CronMs + delay] :
        k \in 0 .. 4, delay \in StartDelays }

ManualNows ==
    { [day |-> anchor.day + k, ms |-> ms] :
        k \in (0 - 7) .. 28, ms \in {0, CronMs} }

GenStart ==
    /\ genPc = "start"
    /\ \/ /\ genTrigger = "schedule"
          /\ genNow = [day |-> anchor.day, ms |-> CronMs]
          /\ genEnv = GenEnvVars
          /\ feed \in FeedsTried(genNow)
          /\ imageCandidates = <<>>
       \/ /\ \/ genTrigger = "schedule" /\ genNow \in ScheduledNows
             \/ genTrigger = "workflow_dispatch" /\ genNow \in ManualNows
          /\ genEnv \in { GenEnvVars \ m : m \in {{}} \cup { {v} : v \in GenEnvVars } }
          /\ feed \in SmallFeeds(genNow)
          /\ imageCandidates = <<>>
       \/ /\ genTrigger = "schedule"
          /\ genNow = [day |-> anchor.day, ms |-> CronMs]
          /\ genEnv = GenEnvVars
          /\ feed = MakeFeed(genNow, 1, 2, FALSE, FALSE)
          /\ imageCandidates \in CandidateLists
    /\ probes = <<>>
    /\ imageMap = <<>>
    /\ createdImages = <<>>
    /\ skip = 0
    /\ genEntries = <<>>
    /\ pageRequests = <<>>
    /\ batchI = 0
    /\ permissions = 0
    /\ genCalls = {}
    /\ genDone = {}
    /\ genFailed = "none"
    /\ genSlack = 0
    /\ genExit = Running

\* main().catch((err) => { ...; process.exit(1) })
GenThrow(step) ==
    /\ genFailed' = step
    /\ genPc' = "done"
    /\ genExit' = 1

\* main returned: the process ends with code 0
GenReturn ==
    /\ genPc' = "done"
    /\ genExit' = 0
    /\ UNCHANGED genFailed

\* one awaited remote call of main other than the page requests
GenCall(step, o, next) ==
    /\ genCalls' = genCalls \cup {step}
    /\ genDone' = IF o = "ok" THEN genDone \cup {step} ELSE genDone
    /\ IF Awaited(o)
       THEN genPc' = next /\ UNCHANGED <<genFailed, genExit>>
       ELSE GenThrow(step)

\* new OpenAI(...), validateEnvVars() and shouldRun()
GenValidateAndGate ==
    /\ genPc = "start"
    /\ IF genEnv # GenEnvVars
       THEN GenThrow("env")
       ELSE IF ~ shouldRun(genNow)
            THEN GenReturn
            ELSE genPc' = "fetch" /\ UNCHANGED <<genFailed, genExit>>
    /\ UNCHANGED <<genEnv, genTrigger, genNow, feed, skip, genEntries,
                   pageRequests, batchI, permissions, genCalls, genDone,
                   genSlack>>
    /\ UNCHANGED <<imageCandidates, probes, imageMap, createdImages>>
    /\ UNCHANGED notGen

\* one turn of while (keepGoing), and, when the loop is left, the return of
\* fetchRecentChangelogEntries and main's test of entries.length
FetchPage ==
    /\ genPc = "fetch"
    /\ genCalls' = genCalls \cup {"canny"}
    /\ \E o \in {"ok", "notOk", "throw"} :
        IF o # "ok"
        THEN /\ pageRequests' =
                    Append(pageRequests,
                           [skip |-> skip, page |-> 0, result |-> "failed"])
             /\ GenThrow("canny")
             /\ UNCHANGED <<skip, genEntries, genDone>>
        ELSE LET page == ServePage(feed, skip, limit)
                 scan == ScanPage(page, genEntries, genNow)
                 left == page = <<>> \/ ~ scan.keepGoing
                 all  == IF page = <<>> THEN genEntries ELSE scan.entries
             IN  /\ pageRequests' =
                        Append(pageRequests,
                               [skip |-> skip, page |-> Len(page),
                                result |-> IF page = <<>> THEN "empty"
                                           ELSE IF scan.keepGoing THEN "more"
                                           ELSE "old"])
                 /\ genEntries' = all
                 /\ skip' = IF page = <<>> THEN skip ELSE NextSkip(skip)
                 /\ genDone' = IF left THEN genDone \cup {"canny"} ELSE genDone
                 /\ IF ~ left
                    THEN UNCHANGED <<genPc, genFailed, genExit>>
                    ELSE IF all = <<>>
                         THEN GenReturn
                         ELSE genPc' = "summarize"
                              /\ UNCHANGED <<genFailed, genExit>>
    /\ UNCHANGED <<genEnv, genTrigger, genNow, feed, batchI, permissions,
                   genSlack>>
    /\ UNCHANGED <<imageCandidates, probes, imageMap, createdImages>>
    /\ UNCHANGED notGen

\* groupAndSummarizeEntries: one batch of BATCH_SIZE entries
GroupAndSummarizeBatch ==
    /\ genPc = "summarize"
    /\ batchI < Len(genEntries)
    /\ genCalls' = genCalls \cup {"openai"}
    /\ \E o \in {"ok", "throw", "notJson"} :
        IF Awaited(o)
        THEN /\ batchI' = batchI + BATCH_SIZE
             /\ genDone' = IF batchI + BATCH_SIZE < Len(genEntries)
                           THEN genDone
                           ELSE genDone \cup {"openai"}
             /\ genPc' = IF batchI + BATCH_SIZE < Len(genEntries)
                         THEN "summarize" ELSE "images"
             /\ UNCHANGED <<genFailed, genExit>>
        ELSE /\ GenThrow("openai")
             /\ UNCHANGED <<batchI, genDone>>
    /\ UNCHANGED <<genEnv, genTrigger, genNow, feed, skip, genEntries,
                   pageRequests, permissions, genSlack>>
    /\ UNCHANGED <<imageCandidates, probes, imageMap, createdImages>>
    /\ UNCHANGED notGen

\* collectImagesByGroup: one image of an entry that matched a group;
\* imageMap[type].push(imageUrl) if (await isImageAccessible(imageUrl))
ProbeImage ==
    /\ genPc = "images"
    /\ imageCandidates # <<>>
    /\ genCalls' = genCalls \cup {"image"}
    /\ \E response \in HeadResponses :
        LET imageUrl == Head(imageCandidates)
        IN  /\ probes' = Append(probes, [url |-> imageUrl,
                                         response |-> response])
            /\ imageMap' = IF isImageAccessible(response)
                           THEN Append(imageMap, imageUrl)
                           ELSE imageMap
    /\ imageCandidates' = Tail(imageCandidates)
    /\ UNCHANGED <<genEnv, genTrigger, genNow, genPc, feed, skip, genEntries,
                   pageRequests, batchI, permissions, createdImages, genDone,
                   genFailed, genSlack, genExit>>
    /\ UNCHANGED notGen

\* collectImagesByGroup returns imageMap
CollectImagesByGroup ==
    /\ genPc = "images"
    /\ imageCandidates = <<>>
    /\ genPc' = "quote"
    /\ UNCHANGED <<genEnv, genTrigger, genNow, feed, skip, genEntries,
                   pageRequests, batchI, permissions, imageCandidates, probes,
                   imageMap, createdImages, genCalls, genDone, genFailed,
                   genSlack, genExit>>
    /\ UNCHANGED notGen

GenFrame ==
    /\ UNCHANGED <<genEnv, genTrigger, genNow, feed, skip, genEntries,
                   pageRequests, batchI, genSlack, imageCandidates, probes,
                   imageMap>>
    /\ UNCHANGED notGen

GetInspirationQuote ==
    /\ genPc = "quote"
    /\ \E o \in {"ok", "throw"} : GenCall("quote", o, "authorize")
    /\ UNCHANGED <<permissions, createdImages>>
    /\ GenFrame

AuthorizeWithGoogle ==
    /\ genPc = "authorize"
    /\ \E o \in {"ok", "throw"} : GenCall("authorize", o, "copy")
    /\ UNCHANGED <<permissions, createdImages>>
    /\ GenFrame

\* copyTemplatePresentation: drive.files.copy
CopyTemplatePresentation ==
    /\ genPc = "copy"
    /\ \E o \in {"ok", "throw"} : GenCall("copy", o, "permissions")
    /\ UNCHANGED <<permissions, createdImages>>
    /\ GenFrame

\* copyTemplatePresentation: one drive.permissions.create
CreatePermission ==
    /\ genPc = "permissions"
    /\ genCalls' = genCalls \cup {"permission"}
    /\ \E o \in {"ok", "throw"} :
        IF Awaited(o)
        THEN /\ permissions' = IF o = "ok" THEN permissions + 1 ELSE permissions
             /\ genDone' = IF permissions' = PermissionCalls
                           THEN genDone \cup {"permission"} ELSE genDone
             /\ genPc' = IF permissions + 1 < PermissionCalls
                         THEN "permissions" ELSE "get"
             /\ UNCHANGED <<genFailed, genExit>>
        ELSE /\ GenThrow("permission")
             /\ UNCHANGED <<permissions, genDone>>
    /\ UNCHANGED createdImages
    /\ GenFrame

GetPresentation ==
    /\ genPc = "get"
    /\ \E o \in {"ok", "throw"} : GenCall("get", o, "batchUpdate1")
    /\ UNCHANGED <<permissions, createdImages>>
    /\ GenFrame

FirstBatchUpdate ==
    /\ genPc = "batchUpdate1"
    /\ \E o \in {"ok", "throw"} : GenCall("batchUpdate1", o, "batchUpdate2")
    /\ UNCHANGED <<permissions, createdImages>>
    /\ GenFrame

SecondBatchUpdate ==
    /\ genPc = "batchUpdate2"
    /\ \E o \in {"ok", "throw"} : GenCall("batchUpdate2", o, "slack")
    /\ createdImages' = CreateImageUrls(ImageSlideRequests(imageMap))
    /\ UNCHANGED permissions
    /\ GenFrame

\* postToSlack, and the end of main
GenPostToSlack ==
    /\ genPc = "slack"
    /\ genCalls' = genCalls \cup {"slack"}
    /\ \E o \in {"ok", "throw"} :
        /\ genDone' = IF o = "ok" THEN genDone \cup {"slack"} ELSE genDone
        /\ genSlack' = IF o = "ok" THEN genSlack + 1 ELSE genSlack
        /\ IF Awaited(o) THEN GenReturn ELSE GenThrow("slack")
    /\ UNCHANGED <<genEnv, genTrigger, genNow, feed, skip, genEntries,
                   pageRequests, batchI, permissions, imageCandidates, probes,
                   imageMap, createdImages>>
    /\ UNCHANGED notGen

InitGenerator ==
    /\ GenStart
    /\ CycleIdle /\ ChunkIdle /\ SlidesIdle /\ PosterIdle /\ WeeklyIdle
    /\ PlainIdle /\ SchedIdle /\ KudosIdle

NextGenerator ==
    \/ GenValidateAndGate
    \/ FetchPage
    \/ GroupAndSummarizeBatch
    \/ ProbeImage
    \/ CollectImagesByGroup
    \/ GetInspirationQuote
    \/ AuthorizeWithGoogle
    \/ CopyTemplatePresentation
    \/ CreatePermission
    \/ GetPresentation
    \/ FirstBatchUpdate
    \/ SecondBatchUpdate
    \/ GenPostToSlack

SpecGenerator == InitGenerator /\ [][NextGenerator]_vars

\* every step of the run that can be taken is taken in the end
SpecGeneratorFair == SpecGenerator /\ WF_vars(NextGenerator)

----------------------------------------------------------------------------
(* The "Kudos to" section of a changelog entry.  Both posters collect the  *)
(* authors of the commits in the Set allContributors and main appends the  *)
(* section to details; the text is kept as its parts, a heading and one    *)
(* mention per name.                                                       *)

\* number of commits whose author is collected
MaxAuthors == 3

\* author: c.author?.login || c.commit?.author?.name || "unknown"
Authors == {"ann", "bob", "semantic-release-bot", "unknown"}

KudosHeading == [kind |-> "heading", text |-> "Kudos to"]

\* `@${n}`
Mention(n) == [kind |-> "mention", text |-> n]

\* names.map((n) => `@${n}`)
Mentions(names) == [i \in 1..Len(names) |-> Mention(names[i])]

\* Array.from(set).filter((n) => n !== "semantic-release-bot")
kudosTo(contributors) ==
    SelectSeq(contributors, LAMBDA n : n # "semantic-release-bot")

\* part_000: the section is the empty string when no name is left
formatContributors(contributors) ==
    LET names == kudosTo(contributors)
    IN  IF Len(names) # 0 THEN <<KudosHeading>> \o Mentions(names) ELSE <<>>

\* postToCanny.ts: main tests the size of the Set, then filters
mainKudos(contributors) ==
    IF Len(contributors) # 0
    THEN <<KudosHeading>> \o Mentions(kudosTo(contributors))
    ELSE <<>>

KudosStart ==
    /\ kudosScript \in {"rehosting", "plain"}
    /\ commitsSeen = 0
    /\ allContributors = <<>>
    /\ kudosDetails = <<>>
    /\ kudosPc = "collect"

\* commits.forEach((c) => contributors.add(c.author)), one commit
AddContributor ==
    /\ kudosPc = "collect"
    /\ commitsSeen < MaxAuthors
    /\ \E author \in Authors :
           allContributors' = SetAdd(allContributors, author)
    /\ commitsSeen' = commitsSeen + 1
    /\ UNCHANGED <<kudosScript, kudosDetails, kudosPc>>
    /\ UNCHANGED notKudos

\* details += the section
AppendKudos ==
    /\ kudosPc = "collect"
    /\ kudosDetails' =
           IF kudosScript = "rehosting"
           THEN formatContributors(allContributors)
           ELSE mainKudos(allContributors)
    /\ kudosPc' = "done"
    /\ UNCHANGED <<kudosScript, commitsSeen, allContributors>>
    /\ UNCHANGED notKudos

InitKudos ==
    /\ KudosStart
    /\ CycleIdle /\ ChunkIdle /\ SlidesIdle /\ PosterIdle /\ WeeklyIdle
    /\ PlainIdle /\ SchedIdle /\ GenIdle

NextKudos ==
    \/ AddContributor
    \/ AppendKudos

SpecKudos == InitKudos /\ [][NextKudos]_vars

----------------------------------------------------------------------------
(* Pagination: chunkArray on its own, and createSlides on its own. *)

InitPaging ==
    \/ ChunkStart /\ SlidesIdle /\ CycleIdle /\ PosterIdle /\ WeeklyIdle
                  /\ PlainIdle /\ SchedIdle /\ GenIdle /\ KudosIdle
    \/ CreateSlidesStart /\ ChunkIdle /\ CycleIdle /\ PosterIdle /\ WeeklyIdle
                         /\ PlainIdle /\ SchedIdle /\ GenIdle /\ KudosIdle

NextPaging ==
    \/ ChunkArrayStep
    \/ ChunkArrayReturn
    \/ CopyTemplate
    \/ BulletPage
    \/ NextGroup
    \/ ImagePage
    \/ QuoteSlide
    \/ BatchUpdateGroupSlides
    \/ BatchUpdateOtherSlides

SpecPaging == InitPaging /\ [][NextPaging]_vars

InitPoster ==
    \/ PosterStart /\ PlainIdle /\ CycleIdle /\ ChunkIdle /\ SlidesIdle
                   /\ WeeklyIdle /\ SchedIdle /\ GenIdle /\ KudosIdle
    \/ PlainStart /\ PosterIdle /\ CycleIdle /\ ChunkIdle /\ SlidesIdle
                  /\ WeeklyIdle /\ SchedIdle /\ GenIdle /\ KudosIdle

NextPoster ==
    \/ PosterTopLevel
    \/ GetRepos
    \/ GetMergedPRs
    \/ GetCommits
    \/ SummarizePR
    \/ FindPRsByCommit
    \/ ExtractMediaLinks
    \/ CacheHit
    \/ Rehost
    \/ ExtractReturn
    \/ NextCommit
    \/ NextPR
    \/ SummarizeProjectPRs
    \/ ReposDone
    \/ FormatQuote
    \/ PostToCanny
    \/ PostToSlack
    \/ PlainTopLevel
    \/ PlainGetRepos
    \/ PlainGetMergedPRs
    \/ PlainGetCommits
    \/ PlainSummarizePR
    \/ PlainSummarizeProjectPRs
    \/ PlainReposDone
    \/ PlainGetInspirationQuote
    \/ PlainPostToCanny

SpecPoster == InitPoster /\ [][NextPoster]_vars

InitWeekly ==
    WeeklyStart /\ CycleIdle /\ ChunkIdle /\ SlidesIdle /\ PosterIdle
                /\ PlainIdle /\ SchedIdle /\ GenIdle /\ KudosIdle

NextWeekly ==
    \/ FetchRecentlyClosedIssues
    \/ FetchProjectData
    \/ NextRepo
    \/ ReturnIssues
    \/ Aggregate
    \/ GenerateImageChart
    \/ PostImageToSlack

SpecWeekly == InitWeekly /\ [][NextWeekly]_vars

----------------------------------------------------------------------------
(* C1: isBeginningOfCycle(d) is true exactly for the dates that lie a      *)
(* whole number k >= 0 of 28-day periods after the anchor's day (these are *)
(* the Mondays whose week offset from the anchor is a non-negative         *)
(* multiple of 4), at any instant of that day, and false for every other   *)
(* date; it is true for every valid fixture date and false for every       *)
(* invalid fixture date of the repository's test.                          *)
C1_CyclePredicate ==
    cyclePc = "done" =>
        /\ cycleResult = (\E k \in 0 .. (MaxCycles + 1) :
                              date.day = anchor.day + 28 * k)
        /\ \A f \in validDates : date = FixtureDate(f) => cycleResult = TRUE
        /\ \A f \in invalidDates : date = FixtureDate(f) => cycleResult = FALSE

\* a cycle start other than the anchor itself has been accepted, at the
\* scheduled run time
C1_Witness ==
    /\ cyclePc = "done"
    /\ cycleResult = TRUE
    /\ date.day = anchor.day + 28 * 11
    /\ date.ms = 13 * 60 * 60 * 1000

----------------------------------------------------------------------------
(* What createSlides has built, read back from its request lists. *)

RECURSIVE TextsOf(_)
TextsOf(reqs) ==
    IF reqs = <<>> THEN <<>> ELSE <<Head(reqs).text>> \o TextsOf(Tail(reqs))

RECURSIVE UrlsOf(_)
UrlsOf(reqs) ==
    IF reqs = <<>> THEN <<>> ELSE <<Head(reqs).url>> \o UrlsOf(Tail(reqs))

IsBodyOf(r, g) ==
    r.op = "insertText" /\ r.objectId[1] = "body" /\ r.objectId[2] = g

\* the bullet lists of the pages of group g, in the order they were built
BulletPages(g) ==
    TextsOf(SelectSeq(followupRequests, LAMBDA r : IsBodyOf(r, g)))

IsImageOn(r, k) ==
    r.op = "createImage" /\ r.pageObjectId = <<"images", "all", k>>

\* the image URLs of image slide number k (from 0), in order
ImagesOnSlide(k) ==
    UrlsOf(SelectSeq(followupRequests, LAMBDA r : IsImageOn(r, k)))

\* the image lists of all image slides built so far, in order
ImagePages == [k \in 1 .. imageIndex |-> ImagesOnSlide(k - 1)]

GroupSet == {"features", "improvements", "fixes"}

\* both page loops of createSlides have ended
LoopsDone == csPc \in {"batch1", "batch2", "done"}

\* pages is a partition of n items into ceil(n / s) pages: every page but
\* the last has s items, the last has 1 .. s
PagesOk(pages, n, s) ==
    /\ \E c \in 0 .. n :
        /\ Len(pages) = c
        /\ (c - 1) * s < n
        /\ n <= c * s
    /\ \A k \in 1 .. Len(pages) - 1 : Len(pages[k]) = s
    /\ Len(pages) > 0 =>
        /\ Len(pages[Len(pages)]) >= 1
        /\ Len(pages[Len(pages)]) <= s

(* C2: chunking N >= 0 items with page size s > 0 gives exactly ceil(N/s)  *)
(* chunks, every chunk but the last has s items, the last has 1 .. s, and  *)
(* N = 0 gives no chunk: for chunkArray, for the bullet pages of every     *)
(* group of createSlides and for its image pages.                          *)
C2_ChunkCount ==
    /\ chunkPc = "done" => PagesOk(chunks, Len(array), chunkSize)
    /\ LoopsDone =>
        /\ \A g \in GroupSet :
            PagesOk(BulletPages(g), Len(grouped[g]),
                    MAX_BULLETS_PER_PAGE(script))
        /\ PagesOk(ImagePages, Len(allImages), MAX_IMAGES_PER_PAGE)

\* chunkArray with the callers' size 5 has returned three chunks, the last
\* one shorter
C2_Witness ==
    /\ chunkPc = "done"
    /\ chunkSize = SummaryChunkSize
    /\ Len(chunks) = 3
    /\ Len(chunks[3]) = 2

(* C3: pagination neither loses, duplicates nor reorders items: the        *)
(* chunks, concatenated in the order they are produced, are the input      *)
(* list (chunkArray, the bullet pages of every group, the image pages).    *)
C3_ChunksConcatToInput ==
    /\ chunkPc = "done" => Flatten(chunks) = array
    /\ LoopsDone =>
        /\ \A g \in GroupSet : Flatten(BulletPages(g)) = grouped[g]
        /\ Flatten(ImagePages) = allImages

\* createSlides of monthlyReleasesSlides.ts has paged 13 features into
\* three slides
C3_Witness ==
    /\ csPc = "done"
    /\ script = "monthly"
    /\ Len(grouped.features) = 13
    /\ Len(BulletPages("features")) = 3

\* position of a slide in the deck (0 when it is not there)
PosInDeck(id) ==
    IF \E k \in 1 .. Len(deck) : deck[k] = id
    THEN CHOOSE k \in 1 .. Len(deck) : deck[k] = id
    ELSE 0

(* C5 (as claimed): once the createSlide requests of the bullet slides     *)
(* have been applied, the bullet slides are in the deck in the order of    *)
(* their chunks: features pages, improvements pages, fixes pages, page k   *)
(* before page k + 1 (monthlyReleasesSlides.ts, where every such request   *)
(* carries the same insertionIndex).                                       *)
C5_BulletSlidesInChunkOrder ==
    (script = "monthly" /\ csPc \in {"batch2", "done"}) =>
        \A a, b \in 1 .. Len(groupSlideRequests) :
            a < b =>
                PosInDeck(groupSlideRequests[a].objectId)
                    < PosInDeck(groupSlideRequests[b].objectId)

(* C6 (as claimed): every bullet slide of either slide generator holds at  *)
(* most 6 bullets and every image slide at most 9 images.                  *)
C6_AtMostSixBulletsEverywhere ==
    /\ \A g \in GroupSet :
        \A k \in 1 .. Len(BulletPages(g)) :
            Len(BulletPages(g)[k]) <= MAX_BULLETS_PER_PAGE_monthly
    /\ \A k \in 1 .. Len(ImagePages) :
        Len(ImagePages[k]) <= MAX_IMAGES_PER_PAGE

(* C6 (amended): every bullet slide holds at most MAX_BULLETS_PER_PAGE     *)
(* bullets of the script that builds it, 6 in monthlyReleasesSlides.ts and *)
(* 7 in the variant generator; every image slide of either generator holds *)
(* at most 9 images.                                                       *)
C6_PageCapacityPerScript ==
    /\ \A g \in GroupSet :
        \A k \in 1 .. Len(BulletPages(g)) :
            /\ script = "monthly" =>
                Len(BulletPages(g)[k]) <= MAX_BULLETS_PER_PAGE_monthly
            /\ script = "variant" =>
                Len(BulletPages(g)[k]) <= MAX_BULLETS_PER_PAGE_variant
    /\ \A k \in 1 .. Len(ImagePages) :
        Len(ImagePages[k]) <= MAX_IMAGES_PER_PAGE

\* the variant generator has built a bullet slide with 7 bullets, and an
\* image slide is full
C6_Witness ==
    \/ /\ script = "variant"
       /\ \E g \in GroupSet : \E k \in 1 .. Len(BulletPages(g)) :
            Len(BulletPages(g)[k]) = MAX_BULLETS_PER_PAGE_variant
    \/ /\ script = "monthly"
       /\ \E k \in 1 .. Len(ImagePages) :
            Len(ImagePages[k]) = MAX_IMAGES_PER_PAGE
       /\ Len(ImagePages) = 2

----------------------------------------------------------------------------
(* Rehosting in the changelog poster. *)

\* the rehosted URLs embedded so far in a finished section or PR summary
Embedded ==
    Elems(prImages) \cup Elems(Flatten(summaries)) \cup Elems(Flatten(details))

\* C4 as stated: rehydrateGitHubAssetToUploadcare is called at most once for
\* every GitHub URL in a run, whether or not the first call succeeded.
C4_RehostedAtMostOnce ==
    \A u \in GithubUrls : rehostLog[u].fails + rehostLog[u].oks <= 1

\* C4: in one run every GitHub URL is uploaded successfully at most once,
\* and after a successful call rehydrateGitHubAssetToUploadcare is never
\* called for it again; a call that failed is not remembered.
C4_UploadedAtMostOnce ==
    \A u \in GithubUrls :
        /\ rehostLog[u].oks <= 1
        /\ ~rehostLog[u].late
        /\ (u \in DOMAIN rehostCache) = (rehostLog[u].oks = 1)

\* a URL whose first call failed, whose second call succeeded and which a
\* later body names again: the cache answers
C4_Witness ==
    \E u \in DOMAIN rehostCache :
        /\ rehostLog[u].fails >= 1
        /\ rehostLog[u].oks = 1
        /\ rehostCache[u] \in Elems(results)
        /\ rehostCache[u] \in Embedded

\* the URLs of the files the CDN stored in this run
StoredUrls == { CdnUrl(k) : k \in 1 .. filesStored }

RequiredSet == \A k \in 1 .. Len(PosterChecked) : PosterChecked[k] \in posterEnv

\* C7: an asset whose rehosting failed is left out of the result of
\* extractMediaLinks and of everything built from it, nothing is stored in
\* rehostCache for it, and the run carries on: unless a variable is missing
\* or another call fails the process ends with code 0, and the Canny entry
\* is created from the details whenever there are any.
C7_RehostFailureNotFatal ==
    /\ Elems(results) \cup Embedded \subseteq StoredUrls
    /\ \A u \in DOMAIN rehostCache :
        rehostLog[u].oks >= 1 /\ rehostCache[u] \in StoredUrls
    /\ exitCode = 1 => failedCall # "none" \/ ~RequiredSet
    /\ pPc = "exit" /\ RequiredSet /\ failedCall \in {"none", "slack"}
        => /\ exitCode = 0
           /\ details # <<>> => cannyEntries = <<details>>

\* a run in which every rehosting failed and that created its Canny entry
C7_Witness ==
    /\ pPc = "exit"
    /\ exitCode = 0
    /\ cannyEntries = <<details>>
    /\ \E u \in GithubUrls : rehostLog[u].fails >= 1
    /\ \A u \in GithubUrls : rehostLog[u].oks = 0

----------------------------------------------------------------------------
(* Missing configuration and failing lookups. *)

\* C8 as stated: in every script a missing environment variable ends the
\* process with code 1 before any remote call and before any side effect.
C8_AbortsBeforeAnyCall ==
    /\ wPc # "idle" /\ weeklyEnv # WeeklyEnvVars
        => /\ wRemoteCalls = 0
           /\ ~chartFile
           /\ wPc = "exit" => weeklyExit = 1
    /\ pPc # "idle" /\ posterEnv # PosterEnvVars
        => /\ calls = {}
           /\ pPc = "exit" => exitCode = 1

\* fetchRecentlyClosedIssues has returned / aggregateIssuesByAuthor has
IssuesReturned ==
    wPc \in {"aggregate", "chart", "slack"} \/ (wPc = "exit" /\ chartFile)

IssuesAggregated == wPc \in {"chart", "slack"} \/ (wPc = "exit" /\ chartFile)

IssueKey(issue) == <<issue.repo, issue.number>>

KeysOf(q) == { IssueKey(q[k]) : k \in 1 .. Len(q) }

\* the sizes of the issues of a list whose lookup succeeded
RECURSIVE SumLookedUp(_)
SumLookedUp(q) ==
    IF q = <<>> THEN 0
    ELSE (IF IssueKey(Head(q)) \in failedLookups THEN 0 ELSE SizeOf(Head(q)))
         + SumLookedUp(Tail(q))

\* C9 as stated: an issue whose fetchProjectData failed is not in the list
\* fetchRecentlyClosedIssues returns and in no author's issue list.
C9_FailedIssueSkipped ==
    /\ IssuesReturned => KeysOf(issues) \cap failedLookups = {}
    /\ IssuesAggregated =>
        \A k \in 1 .. Len(authorStats) :
            KeysOf(authorStats[k].issues) \cap failedLookups = {}

\* C9: an issue whose fetchProjectData failed stays in the list
\* fetchRecentlyClosedIssues returns, without projectData; it is in the
\* issue list of its author and adds 0 to that author's totalSize.
C9_FailedIssueKeptWithoutData ==
    /\ IssuesReturned =>
        \A f \in failedLookups :
            \E k \in 1 .. Len(issues) :
                /\ IssueKey(issues[k]) = f
                /\ ~issues[k].projectData.present
                /\ \A j \in 1 .. Len(issues) : IssueKey(issues[j]) = f => j = k
    /\ IssuesAggregated =>
        /\ \A k \in 1 .. Len(issues) :
            \E e \in 1 .. Len(authorStats) :
                /\ authorStats[e].author = AuthorOf(issues[k])
                /\ IssueKey(issues[k]) \in KeysOf(authorStats[e].issues)
        /\ \A e \in 1 .. Len(authorStats) :
            authorStats[e].totalSize = SumLookedUp(authorStats[e].issues)

\* an author with an issue whose lookup failed and a total above 0
C9_Witness ==
    /\ IssuesAggregated
    /\ \E e \in 1 .. Len(authorStats) :
        /\ authorStats[e].totalSize > 0
        /\ KeysOf(authorStats[e].issues) \cap failedLookups # {}

\* C10: a lookup that fails never ends the run: every issue of every
\* repository is processed, and unless a token is missing or the query,
\* the aggregation or the Slack upload fails the run aggregates, writes the
\* chart, posts it and ends with code 0.
C10_LookupFailureNotFatal ==
    /\ weeklyExit = 1 => weeklyFailed # "none" \/ weeklyEnv # WeeklyEnvVars
    /\ IssuesReturned => Len(issues) = SumSeq(repoSizes)
    /\ wPc = "exit" /\ weeklyEnv = WeeklyEnvVars /\ weeklyFailed = "none"
        => /\ weeklyExit = 0
           /\ Len(issues) = SumSeq(repoSizes)
           /\ authorStats = aggregateIssuesByAuthor(issues)
           /\ chartFile
           /\ slackUploads = 1

\* a run whose first lookup failed, that looked up the issue after it and
\* posted its chart
C10_Witness ==
    /\ wPc = "exit"
    /\ weeklyExit = 0
    /\ slackUploads = 1
    /\ \E f \in failedLookups, k \in 1 .. Len(issues) :
        /\ issues[k].projectData.present
        /\ \/ issues[k].repo > f[1]
           \/ issues[k].repo = f[1] /\ issues[k].number > f[2]

----------------------------------------------------------------------------
(* Failures of the poster's remote calls. *)

\* C11 as stated: a run in which a remote call other than a rehost failed
\* never goes on and never ends with code 0.
C11_AnyFailureIsFatal ==
    /\ tolerated = {}
    /\ pPc = "exit" /\ failedCall # "none" => exitCode = 1

\* the calls whose failure ends the process
FatalCalls ==
    {"repos", "pulls", "commits", "commitPulls", "summarizePR",
     "summarizeProject", "quote", "canny"}

\* C11: a failure of listing repositories, PRs or commits, of a
\* language-model call or of creating the Canny entry, and a network error
\* of the development-PR lookup, end the process with code 1.  A lookup
\* answered with another status than 2xx counts as no development PRs and
\* the run goes on; a failed Slack post is logged after the Canny entry was
\* created and the run ends with code 0.
C11_FatalExceptLookupAndSlack ==
    /\ failedCall \in FatalCalls \cup {"none", "slack"}
    /\ failedCall \in FatalCalls => pPc = "exit" /\ exitCode = 1
    /\ failedCall = "slack" =>
        /\ pPc = "exit"
        /\ exitCode = 0
        /\ cannyEntries = <<details>>
        /\ slackMessages = 0
    /\ tolerated \subseteq {"commitPulls"}
    /\ tolerated = {"commitPulls"} =>
        /\ pPc = "devPR"
        /\ devPRsLeft = 0
        /\ failedCall = "none"
        /\ exitCode = Running
    /\ pPc = "exit" /\ exitCode = 0 => failedCall \in {"none", "slack"}

\* a refused lookup of the second repository was passed over
C11_Witness ==
    /\ tolerated = {"commitPulls"}
    /\ pPc = "devPR"
    /\ exitCode = Running
    /\ reposLeft = 1
    /\ details # <<>>

\* C12: when no repository has a merged PR (getCommits is never called)
\* the poster creates no Canny entry, posts no Slack message and asks for
\* no quote, and with its variables set and no call failing it ends with
\* code 0; for the poster with rehosting and for postToCanny.ts.
C12_NothingMergedNoPost ==
    /\ "commits" \notin calls =>
        /\ cannyEntries = <<>>
        /\ slackMessages = 0
        /\ calls \cap {"quote", "canny", "slack"} = {}
        /\ pPc = "exit" /\ RequiredSet /\ failedCall = "none" => exitCode = 0
    /\ "commits" \notin plainCalls =>
        /\ plainEntries = <<>>
        /\ plainCalls \cap {"quote", "canny"} = {}
        /\ (/\ plainPc = "exit"
            /\ \A k \in 1 .. Len(PlainChecked) : PlainChecked[k] \in plainEnv
            /\ plainFailed = "none") => plainExit = 0

\* a run that asked two repositories for their PRs and found none
C12_Witness ==
    /\ pPc = "exit"
    /\ exitCode = 0
    /\ "pulls" \in calls
    /\ "commits" \notin calls
    /\ reposLeft = 0

\* every entry of rehostCache is still there, unchanged, after the step
CacheKept ==
    \A u \in DOMAIN rehostCache :
        u \in DOMAIN rehostCache' /\ rehostCache'[u] = rehostCache[u]

\* a URL that the step takes from the list and that was in the cache adds
\* the cached URL to the results
CacheAnswers ==
    (urlsLeft # <<>> /\ urlsLeft' = Tail(urlsLeft)
        /\ Head(urlsLeft) \in DOMAIN rehostCache)
    => results' = Append(results, rehostCache[Head(urlsLeft)])

\* C13: rehostCache starts empty; an entry is never changed or removed, so
\* a later reference to its URL gets the same rehosted URL; an entry is
\* stored only after a successful upload of its URL; different URLs have
\* different rehosted URLs.
C13_CacheWriteOnce ==
    /\ pPc = "start" => rehostCache = <<>>
    /\ [](\A u \in DOMAIN rehostCache :
            /\ rehostLog[u].oks >= 1
            /\ rehostCache[u] \in StoredUrls
            /\ \A v \in DOMAIN rehostCache :
                rehostCache[u] = rehostCache[v] => u = v)
    /\ [][CacheKept /\ CacheAnswers]_vars

\* both URLs are in the cache and a body has been answered from it
C13_Witness ==
    /\ DOMAIN rehostCache = GithubUrls
    /\ filesStored = 2
    /\ \E u \in GithubUrls :
        rehostCache[u] \in Elems(results) /\ rehostCache[u] \in Embedded

----------------------------------------------------------------------------
(* The cycle gate under the weekly schedule, before the anchor, and within *)
(* one day.                                                                *)

\* the runs of schedLog that passed the gate
Passing == { k \in 1 .. Len(schedLog) : schedLog[k].passed }

\* C16: of the weekly runs from the anchor week on, the first passes the
\* gate; among any four consecutive runs exactly one passes; two passing
\* runs with none between them are 28 days apart.
C16_EveryFourthTrigger ==
    /\ Len(schedLog) >= 1 =>
        schedLog[1].passed /\ schedLog[1].day = anchor.day
    /\ \A k \in 1 .. Len(schedLog) - 3 :
        Cardinality(Passing \cap (k .. k + 3)) = 1
    /\ \A i \in Passing, j \in Passing :
        (i < j /\ Passing \cap (i + 1 .. j - 1) = {})
            => schedLog[j].day - schedLog[i].day = 28

\* nine weekly runs: the first, the fifth and the ninth passed
C16_Witness ==
    /\ Len(schedLog) = 9
    /\ Passing = {1, 5, 9}
    /\ schedDate.ms = CronMs

\* C17: isBeginningOfCycle is false for every date before the anchor, the
\* Mondays a multiple of 4 weeks before it included.
C17_FalseBeforeAnchor ==
    (cyclePc = "done" /\ date.day < anchor.day) => cycleResult = FALSE

\* 2025-04-07, the Monday four weeks before the anchor, was refused
C17_Witness ==
    /\ cyclePc = "done"
    /\ date = NewDate(2025, 4, 7)
    /\ getUTCDay(date) = 1
    /\ FloorWeeks(diffMs(date, anchor)) = 0 - 4
    /\ cycleResult = FALSE

\* C18: the result of isBeginningOfCycle is that of the midnight of the
\* same UTC day, and that of every other instant of the day that is tried.
C18_SameResultAllDay ==
    cyclePc = "done" =>
        /\ cycleResult = isBeginningOfCycle([day |-> date.day, ms |-> 0])
        /\ \A ms \in MsSamples :
            cycleResult = isBeginningOfCycle([day |-> date.day, ms |-> ms])

\* the last millisecond of a cycle start was accepted
C18_Witness ==
    /\ cyclePc = "done"
    /\ date.day = anchor.day + 28
    /\ date.ms = DayMs - 1
    /\ cycleResult = TRUE

----------------------------------------------------------------------------
(* One run of the slide generator. *)

SlideCalls == {"copy", "permission", "batchUpdate1", "batchUpdate2"}

\* C14: the Slack message is sent only after the template copy, the
\* permission calls and both batchUpdate calls succeeded; a run in which a
\* step fails (Canny page, language model, Drive, Slides, Slack) ends with
\* exit code 1 and has posted no Slack message.
C14_SlackOnlyAfterSlides ==
    /\ "slack" \in genCalls => SlideCalls \subseteq genDone
    /\ genSlack > 0 => SlideCalls \subseteq genDone
    /\ genFailed # "none" => genPc = "done" /\ genExit = 1 /\ genSlack = 0
    /\ (genPc = "done" /\ genExit = 0) => genFailed = "none"

\* the second batchUpdate failed after the first succeeded
C14_Witness ==
    /\ genFailed = "batchUpdate2"
    /\ {"canny", "openai", "copy", "permission", "batchUpdate1"}
            \subseteq genDone
    /\ genExit = 1
    /\ genSlack = 0
    /\ "slack" \notin genCalls

\* C15: with the environment complete and isBeginningOfCycle(now) false, the
\* run makes no remote call and ends with exit code 0, whatever started it.
C15_NoCallOffCycle ==
    (genPc # "start" /\ genEnv = GenEnvVars /\ ~ isBeginningOfCycle(genNow))
        => /\ genPc = "done"
           /\ genExit = 0
           /\ genCalls = {}
           /\ pageRequests = <<>>
           /\ genSlack = 0

\* a manual run on a Monday that does not start a cycle
C15_Witness ==
    /\ genTrigger = "workflow_dispatch"
    /\ genEnv = GenEnvVars
    /\ getUTCDay(genNow) = 1
    /\ ~ isBeginningOfCycle(genNow)
    /\ genPc = "done"
    /\ genExit = 0
    /\ genCalls = {}

\* created is more than 28 days before now
MoreThan28Days(created, now) ==
    LET days == now.day - created.day
        ms   == now.ms - created.ms
    IN  days > 28 \/ (days = 28 /\ ms > 0)

\* the entries of f before the first one that is more than 28 days old
RecentPrefix(f, now) ==
    LET old == { i \in 1 .. Len(f) : MoreThan28Days(f[i].created, now) }
    IN  SubSeq(f, 1, Cardinality({ i \in 1 .. Len(f) :
                                    \A j \in old : i < j }))

\* C19: fetchRecentChangelogEntries returns the entries of the feed that
\* come before the first entry created more than 28 days before the call,
\* in feed order.
C19_ReturnsRecentPrefix ==
    "canny" \in genDone => genEntries = RecentPrefix(feed, genNow)

\* more than one page was returned, the last entry of it exactly 28 days
\* old, and a recent entry after the first too-old one was left out
C19_Witness ==
    /\ "canny" \in genDone
    /\ Len(genEntries) > limit
    /\ genEntries[Len(genEntries)].created = fourWeeksAgo(genNow)
    /\ \E i \in Len(genEntries) + 2 .. Len(feed) :
        ~ MoreThan28Days(feed[i].created, genNow)

\* the page requests so far: the k-th asks for skip = 100 (k - 1), gets at
\* most 100 entries, and each one before the latest got a page that was
\* not empty and had no too-old entry
RequestsInOrder ==
    /\ \A k \in 1 .. Len(pageRequests) :
        /\ pageRequests[k].skip = limit * (k - 1)
        /\ pageRequests[k].page <= limit
        /\ k < Len(pageRequests) => pageRequests[k].result = "more"
    /\ (genPc = "fetch" /\ pageRequests # <<>>)
        => pageRequests[Len(pageRequests)].result = "more"
    /\ genPc \notin {"start", "fetch"}
        => \A k \in 1 .. Len(pageRequests) - 1 :
            pageRequests[k].result = "more"

\* the number of requests up to the first empty page or too-old entry
RequestsNeeded(f, now) ==
    LET old == { i \in 1 .. Len(f) : MoreThan28Days(f[i].created, now) }
        kept == Len(RecentPrefix(f, now))
    IN  IF old = {}
        THEN (Len(f) + limit - 1) \div limit + 1
        ELSE kept \div limit + 1

\* C20: the page loop ends; it ends at the first empty page or the first
\* too-old entry, with no request after it, and the k-th request has
\* skip = 100 (k - 1).
C20_PageLoopTerminates ==
    /\ [](RequestsInOrder)
    /\ []("canny" \in genDone
            => Len(pageRequests) = RequestsNeeded(feed, genNow))
    /\ (genPc = "fetch") ~> (genPc # "fetch")

\* a feed of two full pages, all recent: the third request got the empty page
C20_Witness ==
    /\ "canny" \in genDone
    /\ Len(feed) = 2 * limit
    /\ Len(pageRequests) = 3
    /\ pageRequests[3] = [skip |-> 2 * limit, page |-> 0, result |-> "empty"]
    /\ Len(genEntries) = 2 * limit

----------------------------------------------------------------------------
(* The two posts of the changelog poster. *)

\* a step that posts the Slack message
SlackPosted == slackMessages' # slackMessages

\* C21: a run of the poster creates at most one Canny entry and posts at
\* most one Slack message, and the Slack call is made, and the message
\* posted, only when the Canny entry of the run exists.
C21_OneEntryThenOneMessage ==
    /\ [](/\ Len(cannyEntries) <= 1
          /\ slackMessages <= 1
          /\ (slackMessages > 0 \/ "slack" \in calls \/ pPc = "slack")
                => Len(cannyEntries) = 1)
    /\ [][SlackPosted => /\ cannyEntries = <<details>>
                         /\ cannyEntries' = cannyEntries
                         /\ slackMessages' = 1]_vars

\* the entry was created and the message posted
C21_Witness ==
    /\ pPc = "exit"
    /\ exitCode = 0
    /\ Len(cannyEntries) = 1
    /\ slackMessages = 1
    /\ failedCall = "none"

----------------------------------------------------------------------------
(* The deck and the request lists of createSlides. *)

\* the slides of the deck that came with the template
TemplateCount == Cardinality({ k \in 1 .. Len(deck) : deck[k][1] = "template" })

\* C22: in monthlyReleasesSlides.ts, once the first batchUpdate is applied,
\* every bullet slide is in the deck and the last slide of the template
\* comes after each of them.
C22_BulletSlidesBeforeLastTemplateSlide ==
    (script = "monthly" /\ csPc \in {"batch2", "done"}) =>
        /\ TemplateCount >= 1
        /\ \A a \in 1 .. Len(groupSlideRequests) :
            /\ PosInDeck(groupSlideRequests[a].objectId) > 0
            /\ PosInDeck(groupSlideRequests[a].objectId)
                 < PosInDeck(<<"template", "", TemplateCount>>)

\* three bullet slides were put into a template of two slides
C22_Witness ==
    /\ script = "monthly"
    /\ csPc = "done"
    /\ TemplateCount = 2
    /\ Len(groupSlideRequests) = 3
    /\ PosInDeck(<<"template", "", 2>>) = 5

\* the requests in the order createSlides sends them
RequestsSent ==
    groupSlideRequests \o SecondBatch(otherSlideRequests, followupRequests)

\* the object ids a request creates, and those it refers to
CreatedBy(r) ==
    IF r.op = "createSlide" THEN {r.objectId} \cup PlaceholderIds(r.objectId)
    ELSE IF r.op = "createShape" THEN {r.objectId}
    ELSE {}

ReferredBy(r) ==
    IF r.op = "insertText" THEN {r.objectId}
    ELSE IF r.op \in {"createShape", "createImage"} THEN {r.pageObjectId}
    ELSE {}

\* C28: in the requests createSlides sends, first batch then second batch,
\* each in list order, every id a request refers to is created by an
\* earlier request, and no id is created twice.
C28_CreatedBeforeUse ==
    LET sent == RequestsSent
    IN  /\ \A i \in 1 .. Len(sent) :
            \A id \in ReferredBy(sent[i]) :
                \E j \in 1 .. i - 1 : id \in CreatedBy(sent[j])
        /\ \A i, j \in 1 .. Len(sent) :
            i < j => CreatedBy(sent[i]) \cap CreatedBy(sent[j]) = {}

\* bullet slides, two image slides and the quote slide were requested
C28_Witness ==
    /\ csPc = "done"
    /\ script = "monthly"
    /\ quote # ""
    /\ imageIndex = 2
    /\ Len(groupSlideRequests) >= 2
    /\ Len(otherSlideRequests) = 1

\* C29 as stated: neither batchUpdate of createSlides is sent with an empty
\* request list.
C29_NoEmptyBatch ==
    /\ csPc \in {"batch2", "done"} => groupSlideRequests # <<>>
    /\ csPc = "done"
        => SecondBatch(otherSlideRequests, followupRequests) # <<>>

\* the createImage requests of image slide number k (from 0), in order
ImageRequestsOn(k) == SelectSeq(followupRequests, LAMBDA r : IsImageOn(r, k))

\* C30: on every image slide, image number i (from 0) is at column i mod 3
\* and row floor(i / 3); the row is in 0 .. 2 and no two images of the slide
\* have the same (translateX, translateY).
C30_DistinctGridCells ==
    \A k \in 0 .. imageIndex - 1 :
        LET on == ImageRequestsOn(k)
        IN  /\ \A i \in 1 .. Len(on) :
                /\ on[i].col = (i - 1) % 3
                /\ on[i].row = (i - 1) \div 3
                /\ on[i].row \in 0 .. 2
            /\ \A i, j \in 1 .. Len(on) :
                i # j => <<translateX(on[i].col), translateY(on[i].row)>>
                          # <<translateX(on[j].col), translateY(on[j].row)>>

\* an image slide with nine images, the last one in the last cell
C30_Witness ==
    /\ script = "monthly"
    /\ imageIndex >= 1
    /\ Len(ImageRequestsOn(0)) = MAX_IMAGES_PER_PAGE
    /\ ImageRequestsOn(0)[9].col = 2
    /\ ImageRequestsOn(0)[9].row = 2
    /\ translateX(2) = 390
    /\ translateY(2) = 340

----------------------------------------------------------------------------
(* The images of the slide generator. *)

\* the answer to a HEAD request passes the three checks
ChecksPassed(response) ==
    /\ response.status = "ok"
    /\ response.contentType # <<>>
    /\ Head(response.contentType) \in
            {"image/jpeg", "image/jpg", "image/png", "image/gif",
             "image/svg+xml"}
    /\ \/ response.contentLength = <<>>
       \/ response.contentLength \in
            {<<"0">>, <<"1", "0", "4", "8", "5", "7", "6", "0">>}

\* C27: every URL of a createImage request was probed in this run with a
\* HEAD answer that is ok, of a supported content type and not above
\* 10 MiB; an image whose probe fails or throws is left out and the run
\* goes on.
C27_OnlyAccessibleImagesPlaced ==
    /\ \A i \in 1 .. Len(createdImages) :
        \E p \in 1 .. Len(probes) :
            /\ probes[p].url = createdImages[i]
            /\ ChecksPassed(probes[p].response)
    /\ \A i \in 1 .. Len(imageMap) :
        \E p \in 1 .. Len(probes) :
            /\ probes[p].url = imageMap[i]
            /\ ChecksPassed(probes[p].response)
    /\ (genPc = "images" /\ probes # <<>>)
        => genFailed = "none" /\ genExit = Running
    /\ genFailed # "image"

\* one image was placed and one left out after its HEAD request threw: the
\* run went on to the Slack message
C27_Witness ==
    /\ genSlack = 1
    /\ genExit = 0
    /\ Len(probes) = 2
    /\ probes[1].response.status = "throw"
    /\ probes[1].url = 1
    /\ createdImages = <<2>>

----------------------------------------------------------------------------
(* The images of the rehosting poster. *)

\* the image links of a repository section are CDN URLs of files stored in
\* this run, each one the rehostCache entry of a GitHub URL, none twice
SectionOk(section) ==
    /\ \A k \in 1 .. Len(section) :
        /\ section[k] \in StoredUrls
        /\ section[k] \notin GithubUrls
        /\ \E u \in DOMAIN rehostCache : rehostCache[u] = section[k]
    /\ \A i, j \in 1 .. Len(section) : i # j => section[i] # section[j]

----------------------------------------------------------------------------
(* The "Kudos to" section. *)

MentionsOf(section) ==
    { section[i].text : i \in { j \in 1..Len(section) :
                                    section[j].kind = "mention" } }

HasHeading(section) ==
    \E i \in 1..Len(section) : section[i].kind = "heading"

OnlyTheBot(contributors) == Elems(contributors) \subseteq {"semantic-release-bot"}

\* C24: in both posters the section appended to details never mentions
\* semantic-release-bot, and nothing at all is appended, not even the
\* heading, when the contributors hold no name other than
\* semantic-release-bot.
C24_KudosNeverNamesBotAndOmittedWhenOnlyBot ==
    kudosPc = "done" =>
        /\ "semantic-release-bot" \notin MentionsOf(kudosDetails)
        /\ OnlyTheBot(allContributors) => kudosDetails = <<>>

----------------------------------------------------------------------------
(* Aggregation by author and the top performer. *)

\* aggregateIssuesByAuthor was called
AggregateCalled ==
    \/ wPc \in {"chart", "slack"}
    \/ wPc = "exit" /\ (chartFile \/ weeklyFailed = "aggregate")

\* the places (author entry, position) at which the lists hold an issue
PlacesOf(issue) ==
    { p \in (1 .. Len(authorStats)) \X (1 .. Len(issues)) :
        /\ p[2] <= Len(authorStats[p[1]].issues)
        /\ authorStats[p[1]].issues[p[2]] = issue }

SizesOf(q) == [k \in 1 .. Len(q) |-> SizeOf(q[k])]

TotalsOf(stats) == [k \in 1 .. Len(stats) |-> stats[k].totalSize]

LengthsOf(stats) == [k \in 1 .. Len(stats) |-> Len(stats[k].issues)]

\* C25: once aggregateIssuesByAuthor was called every issue passed to it is
\* in the issue list of exactly one author, the one of its login or
\* "unknown"; every totalSize is the sum of the sizes in that author's list,
\* a missing or non-numeric size counting as 0; the totals add up to the
\* sum of all sizes and the lists hold as many issues as were passed.
C25_EveryIssueInOneAuthorList ==
    AggregateCalled =>
        /\ \A k \in 1 .. Len(issues) :
            /\ Cardinality(PlacesOf(issues[k])) = 1
            /\ \A p \in PlacesOf(issues[k]) :
                authorStats[p[1]].author = AuthorOf(issues[k])
        /\ \A e \in 1 .. Len(authorStats) :
            authorStats[e].totalSize = SumSeq(SizesOf(authorStats[e].issues))
        /\ SumSeq(TotalsOf(authorStats)) = SumSeq(SizesOf(issues))
        /\ SumSeq(LengthsOf(authorStats)) = Len(issues)

\* postImageToSlack was called
SlackCalled == wPc = "exit" /\ chartFile

\* C26: the author passed to postImageToSlack as top performer is an author
\* of the statistics and no other author has a strictly larger totalSize;
\* when no issue was closed no author is passed.
C26_TopPerformerHasLargestTotal ==
    SlackCalled =>
        /\ issues = <<>> => topPerformer = NoAuthor
        /\ issues # <<>> =>
            \E e \in 1 .. Len(authorStats) :
                /\ authorStats[e].author = topPerformer
                /\ \A f \in 1 .. Len(authorStats) :
                    authorStats[f].totalSize <= authorStats[e].totalSize

====
